---- MODULE Spec2Model ----
(***************************************************************************)
(* Verification model of the binance-proxy serverless handlers:            *)
(*   - api/usdkrw.js            ordered fallback USD/KRW rate              *)
(*   - api/position-summary.js  Bybit / Bitget / OKX futures summary       *)
(*   - api/binance-alt-summary.js (two handler versions in the file)       *)
(*   - part_004                 binance-alt-summary variant (BTC valuation)*)
(*   - part_005                 solana-balance                             *)
(* One handler invocation is one behaviour.  Money is counted in mills     *)
(* (1/1000 USD) so that the two-decimal rounding of toFixed(2) is visible. *)
(***************************************************************************)
EXTENDS Integers, Sequences, FiniteSets, TLC

VARIABLES
    handler,        \* which handler this invocation runs
    pc,             \* position of the invocation inside the handler
    query,          \* req.query of the inbound request
    env,            \* process.env: are the credentials the handler needs set
    calls,          \* outbound requests issued so far, in order
    tries,          \* usdkrw: const tries = []
    got,            \* upstream payloads the handler still holds, in order
    local,          \* the handler's local variables that outlive an await
    res             \* the response sent: [status, body], or NoRes

vars == <<handler, pc, query, env, calls, tries, got, local, res>>

NoRes == [status |-> 0, body |-> [none |-> TRUE]]

NoLocal == [none |-> TRUE]

(***************************************************************************)
(* JavaScript numbers: finite values are integers (mills where money),     *)
(* plus NaN and the two infinities.                                        *)
(***************************************************************************)
Num(n) == [k |-> "num", v |-> n]
NaN == [k |-> "nan", v |-> 0]
Infinity == [k |-> "inf", v |-> 1]
NegInfinity == [k |-> "inf", v |-> -1]

\* Number.isFinite(x)
IsFinite(x) == x.k = "num"

\* x > 0 on JavaScript numbers (NaN compares false, +Infinity compares true)
GtZero(x) == x.k # "nan" /\ x.v > 0

(***************************************************************************)
(* Raw JSON field values as the upstream may send them, and Number(raw).   *)
(***************************************************************************)
RawNum(n) == [t |-> "number", v |-> n]      \* a JSON number
RawStr(n) == [t |-> "numstr", v |-> n]      \* a numeric string, e.g. "1350.25"
RawText == [t |-> "text", v |-> 0]          \* a non-numeric string
RawHuge == [t |-> "huge", v |-> 0]          \* 1e999 or "Infinity"
RawNull == [t |-> "null", v |-> 0]          \* JSON null
RawUndefined == [t |-> "undefined", v |-> 0] \* the field is absent

\* Number(raw)
ToNumber(raw) ==
    CASE raw.t = "number" -> Num(raw.v)
      [] raw.t = "numstr" -> Num(raw.v)
      [] raw.t = "text" -> NaN
      [] raw.t = "huge" -> Infinity
      [] raw.t = "null" -> Num(0)
      [] OTHER -> NaN

(***************************************************************************)
(* api/usdkrw.js, first handler (lines 18-70)                              *)
(***************************************************************************)
\* a good rate: 1350.25 KRW per USD, in hundredths
GoodRaw == RawNum(135025)

RawVals ==
    { GoodRaw, RawStr(135025), RawNum(0), RawNum(-500), RawText,
      RawHuge, RawNull, RawUndefined }

\* parsed bodies: null when the text is not JSON, else JSON of one of the
\* shapes the sources answer in, carrying the raw rate field
JsonNull == [shape |-> "null", raw |-> RawUndefined]

\* the shape each source answers in
ShapeOf(source) ==
    CASE source = "yahoo" -> "quoteResponse"
      [] source = "dunamu" -> "array"
      [] OTHER -> "rates"

\* bodies a source may answer with: not JSON, its own shape with any raw
\* rate, or well-formed JSON of another shape
Bodies(source) ==
    {JsonNull} \cup
    [shape : {ShapeOf(source)}, raw : RawVals] \cup
    [shape : {IF source = "dunamu" THEN "emptyArray" ELSE "array"},
     raw : {GoodRaw}]

\* what fetchJson returns: a network error / abort gives status 0 and an
\* error string; otherwise ok = r.ok with the parsed body
FetchResults(source) ==
    {[ok |-> FALSE, status |-> 0, error |-> "AbortError", json |-> JsonNull]} \cup
    [ok : {TRUE}, status : {200}, error : {"undefined"}, json : Bodies(source)] \cup
    [ok : {FALSE}, status : {500}, error : {"undefined"},
     json : {JsonNull, [shape |-> ShapeOf(source), raw |-> GoodRaw]}]

\* r?.json?.quoteResponse?.result?.[0]?.regularMarketPrice
YahooRaw(r) == IF r.json.shape = "quoteResponse" THEN r.json.raw ELSE RawUndefined

\* r?.json?.rates?.KRW
RatesRaw(r) == IF r.json.shape = "rates" THEN r.json.raw ELSE RawUndefined

\* r.ok && Number.isFinite(rate) && rate > 0        (yahoo, host, erapi)
AcceptFinite(r, rate) == r.ok /\ IsFinite(rate) /\ GtZero(rate)

\* a mutant of AcceptDunamu: the rate is tested for non-zero, not positive
AcceptDunamuNonZero(r) ==
    r.ok /\ r.json.shape = "array" /\ ToNumber(r.json.raw).k # "nan"
         /\ ToNumber(r.json.raw).v # 0

\* r.ok && Array.isArray(r.json) && r.json[0] && Number(r.json[0].basePrice) > 0
AcceptDunamu(r) ==
    r.ok /\ r.json.shape = "array" /\ GtZero(ToNumber(r.json.raw))

TryEntry(source, r) ==
    [source |-> source, status |-> r.status, ok |-> r.ok, error |-> r.error]

Ok200(rate, source) ==
    [status |-> 200, body |-> [rate |-> rate, source |-> source]]

\* a mutant of AllFailed502: the diagnostics lose the first attempt
AllFailed502Tail(ts) ==
    [status |-> 502, body |-> [error |-> "All sources failed", tries |-> Tail(ts)]]

AllFailed502(ts) ==
    [status |-> 502, body |-> [error |-> "All sources failed", tries |-> ts]]

UsdkrwInit ==
    /\ handler = "usdkrw"
    /\ pc = "yahoo"
    /\ query = [none |-> TRUE]
    /\ env = [creds |-> TRUE]
    /\ calls = <<>>
    /\ tries = <<>>
    /\ got = <<>>
    /\ local = NoLocal
    /\ res = NoRes

\* a mutant of Yahoo: the return after the 200 is missing
YahooNoReturn ==
    /\ handler = "usdkrw" /\ pc = "yahoo"
    /\ \E r \in FetchResults("yahoo") :
        LET rate == ToNumber(YahooRaw(r)) IN
        /\ calls' = Append(calls, "yahoo")
        /\ got' = Append(got, r)
        /\ tries' = Append(tries, TryEntry("yahoo", r))
        /\ res' = IF AcceptFinite(r, rate) THEN Ok200(rate, "yahoo") ELSE res
        /\ pc' = "dunamu"
    /\ UNCHANGED <<handler, query, env, local>>

\* 1) Yahoo Finance
Yahoo ==
    /\ handler = "usdkrw" /\ pc = "yahoo"
    /\ \E r \in FetchResults("yahoo") :
        LET rate == ToNumber(YahooRaw(r)) IN
        /\ calls' = Append(calls, "yahoo")
        /\ got' = Append(got, r)
        /\ tries' = Append(tries, TryEntry("yahoo", r))
        /\ IF AcceptFinite(r, rate)
             THEN res' = Ok200(rate, "yahoo") /\ pc' = "done"
             ELSE res' = res /\ pc' = "dunamu"
    /\ UNCHANGED <<handler, query, env, local>>

\* 2) Dunamu
Dunamu ==
    /\ handler = "usdkrw" /\ pc = "dunamu"
    /\ \E r \in FetchResults("dunamu") :
        /\ calls' = Append(calls, "dunamu")
        /\ got' = Append(got, r)
        /\ tries' = Append(tries, TryEntry("dunamu", r))
        /\ IF AcceptDunamu(r)
             THEN res' = Ok200(ToNumber(r.json.raw), "dunamu") /\ pc' = "done"
             ELSE res' = res /\ pc' = "host"
    /\ UNCHANGED <<handler, query, env, local>>

\* 3) exchangerate.host
Host ==
    /\ handler = "usdkrw" /\ pc = "host"
    /\ \E r \in FetchResults("host") :
        LET rate == ToNumber(RatesRaw(r)) IN
        /\ calls' = Append(calls, "host")
        /\ got' = Append(got, r)
        /\ tries' = Append(tries, TryEntry("host", r))
        /\ IF AcceptFinite(r, rate)
             THEN res' = Ok200(rate, "host") /\ pc' = "done"
             ELSE res' = res /\ pc' = "erapi"
    /\ UNCHANGED <<handler, query, env, local>>

\* 4) open.er-api, then the aggregate failure
Erapi ==
    /\ handler = "usdkrw" /\ pc = "erapi"
    /\ \E r \in FetchResults("erapi") :
        LET rate == ToNumber(RatesRaw(r)) IN
        /\ calls' = Append(calls, "erapi")
        /\ got' = Append(got, r)
        /\ tries' = Append(tries, TryEntry("erapi", r))
        /\ IF AcceptFinite(r, rate)
             THEN res' = Ok200(rate, "erapi")
             ELSE res' = AllFailed502(tries')
        /\ pc' = "done"
    /\ UNCHANGED <<handler, query, env, local>>

UsdkrwNext == Yahoo \/ Dunamu \/ Host \/ Erapi

SpecUsdkrw == UsdkrwInit /\ [][UsdkrwNext]_vars

(***************************************************************************)
(* Shared helpers of the aggregating handlers                              *)
(***************************************************************************)
\* Math.abs
Abs(x) == IF x < 0 THEN -x ELSE x

\* +x.toFixed(2) on an amount in mills: the nearest cent, as mills
Round2(x) ==
    IF x >= 0 THEN ((x + 5) \div 10) * 10 ELSE -(((-x + 5) \div 10) * 10)

\* s.includes(p)
Includes(s, p) ==
    \E i \in 1..(Len(s) - Len(p) + 1) : SubSeq(s, i, i + Len(p) - 1) = p

\* s.startsWith(p) and s.endsWith(p)
StartsWith(s, p) == Len(s) >= Len(p) /\ SubSeq(s, 1, Len(p)) = p
EndsWith(s, p) == Len(s) >= Len(p) /\ SubSeq(s, Len(s) - Len(p) + 1, Len(s)) = p

\* the threshold 100 USD of `Math.abs(usd) >= 100`, in mills
MinUsdMills == 100000

\* top.slice(0, 25)
TopCap == 25

\* `for (const p of list)` over list[lo..hi]: the iterations are applied to acc
\* in list order.  The range is halved and the accumulator of the first half
\* is a value before the second half starts, so long lists evaluate in
\* logarithmic depth.
RECURSIVE ForEach(_, _, _, _, _)
ForEach(Step(_, _), acc, list, lo, hi) ==
    IF lo > hi THEN acc
    ELSE IF lo = hi THEN Step(acc, list[lo])
    ELSE CHOOSE out \in
           { ForEach(Step, a, list, (lo + hi) \div 2 + 1, hi) :
               a \in {ForEach(Step, acc, list, lo, (lo + hi) \div 2)} } : TRUE

\* one step of top.sort((a,b) => b.usd - a.usd): e goes after every element
\* that is not smaller (the sort is stable)
InsertDesc(sorted, e) ==
    LET k == Cardinality({i \in 1..Len(sorted) : sorted[i].usd >= e.usd})
    IN SubSeq(sorted, 1, k) \o <<e>> \o SubSeq(sorted, k + 1, Len(sorted))

SortPrefix(seq, n) == ForEach(InsertDesc, <<>>, seq, 1, n)

\* top.sort((a,b) => b.usd - a.usd)
SortDesc(seq) == SortPrefix(seq, Len(seq))

\* arr.slice(0, n)
Slice(seq, n) == SubSeq(seq, 1, IF Len(seq) < n THEN Len(seq) ELSE n)

SumUsd(seq, n) == ForEach(LAMBDA sum, e : sum + e.usd, 0, seq, 1, n)

(***************************************************************************)
(* api/position-summary.js                                                 *)
(***************************************************************************)
EmptyAcc == [btcNet |-> 0, ethNet |-> 0, altUSD |-> 0, top |-> <<>>]

\* the `futures` object every summary returns
FuturesOf(exchange, acc) ==
    [exchange |-> exchange,
     futures |-> [btcNetQty |-> acc.btcNet,
                  ethNetQty |-> acc.ethNet,
                  altFuturesUSD |-> Round2(acc.altUSD),
                  altFuturesTop |-> Slice(SortDesc(acc.top), TopCap)]]

\* getBybitSummary: signed quantity and signed USD of one position
BybitSignedQty(p) ==
    IF p.side = "BUY" THEN p.size ELSE IF p.side = "SELL" THEN -p.size ELSE 0

BybitUsd(p) ==
    IF p.positionValue # 0
      THEN (IF p.side = "BUY" THEN p.positionValue ELSE -p.positionValue)
      ELSE IF p.markPrice # 0 THEN BybitSignedQty(p) * p.markPrice ELSE 0

\* getBybitSummary: one iteration of `for (const p of list)`
BybitStep(acc, p) ==
    IF p.symbol = "" \/ p.size = 0 THEN acc
    ELSE IF StartsWith(p.symbol, "BTC")
      THEN [acc EXCEPT !.btcNet = @ + BybitSignedQty(p)]
    ELSE IF StartsWith(p.symbol, "ETH")
      THEN [acc EXCEPT !.ethNet = @ + BybitSignedQty(p)]
    ELSE IF Abs(BybitUsd(p)) >= MinUsdMills
      THEN [acc EXCEPT
              !.altUSD = @ + BybitUsd(p),
              !.top = Append(@, [symbol |-> p.symbol, side |-> p.side,
                                 size |-> p.size, markPrice |-> p.markPrice,
                                 usd |-> Round2(BybitUsd(p)),
                                 direction |-> IF BybitUsd(p) > 0 THEN "LONG"
                                                                  ELSE "SHORT"])]
    ELSE acc

BybitLoop(list, n) == ForEach(BybitStep, EmptyAcc, list, 1, n)

\* getBitgetSummary: signed quantity and signed USD of one position
BitgetSignedQty(p) ==
    IF p.holdSide = "LONG" THEN p.total
    ELSE IF p.holdSide = "SHORT" THEN -p.total ELSE 0

BitgetUsd(p) ==
    IF p.usdt # 0
      THEN (IF p.holdSide = "LONG" THEN p.usdt ELSE -p.usdt)
    ELSE IF p.positionValue # 0 \/ p.margin # 0
      THEN LET v == IF p.positionValue # 0 THEN p.positionValue ELSE p.margin
           IN IF p.holdSide = "LONG" THEN v ELSE -v
    ELSE BitgetSignedQty(p) * (IF p.markPrice # 0 THEN p.markPrice ELSE p.lastPr)

\* getBitgetSummary: one iteration of `for (const p of positions)`
BitgetStep(acc, p) ==
    IF p.symbol = "" \/ p.total = 0 THEN acc
    ELSE IF StartsWith(p.symbol, "BTC") \/ Includes(p.symbol, "BTCUSDT")
      THEN [acc EXCEPT !.btcNet = @ + BitgetSignedQty(p)]
    ELSE IF StartsWith(p.symbol, "ETH") \/ Includes(p.symbol, "ETHUSDT")
      THEN [acc EXCEPT !.ethNet = @ + BitgetSignedQty(p)]
    ELSE IF Abs(BitgetUsd(p)) >= MinUsdMills
      THEN [acc EXCEPT
              !.altUSD = @ + BitgetUsd(p),
              !.top = Append(@, [symbol |-> p.symbol, side |-> p.holdSide,
                                 size |-> p.total, markPrice |-> p.markPrice,
                                 usd |-> Round2(BitgetUsd(p)),
                                 direction |-> IF BitgetUsd(p) > 0 THEN "LONG"
                                                                   ELSE "SHORT"])]
    ELSE acc

BitgetLoop(list, n) == ForEach(BitgetStep, EmptyAcc, list, 1, n)

\* getOkxSummary: instMap.get(instId).ctVal, 0 when the instrument is unknown
OkxCtVal(instMap, instId) ==
    IF instId \in DOMAIN instMap THEN instMap[instId] ELSE 0

\* getOkxSummary: coin quantity and signed USD of one position
OkxCoinQty(instMap, p) ==
    IF OkxCtVal(instMap, p.instId) # 0
      THEN p.pos * (IF p.posSide = "SHORT" THEN -1 ELSE 1)
                 * OkxCtVal(instMap, p.instId)
      ELSE 0

OkxUsd(instMap, p) ==
    IF p.hasNotionalUsd
      THEN (IF p.posSide = "SHORT" THEN -p.notionalUsd ELSE p.notionalUsd)
      ELSE OkxCoinQty(instMap, p) * p.markPx

\* getOkxSummary: one iteration of `for (const p of list)`
OkxStep(instMap, acc, p) ==
    IF ~EndsWith(p.instId, "-SWAP") \/ p.pos = 0 THEN acc
    ELSE IF StartsWith(p.instId, "BTC-")
      THEN [acc EXCEPT !.btcNet = @ + OkxCoinQty(instMap, p)]
    ELSE IF StartsWith(p.instId, "ETH-")
      THEN [acc EXCEPT !.ethNet = @ + OkxCoinQty(instMap, p)]
    ELSE IF Abs(OkxUsd(instMap, p)) >= MinUsdMills
      THEN [acc EXCEPT
              !.altUSD = @ + OkxUsd(instMap, p),
              !.top = Append(@, [instId |-> p.instId, side |-> p.posSide,
                                 contracts |-> p.pos,
                                 ctVal |-> OkxCtVal(instMap, p.instId),
                                 coinQty |-> OkxCoinQty(instMap, p),
                                 markPx |-> p.markPx,
                                 usd |-> Round2(OkxUsd(instMap, p)),
                                 direction |-> IF OkxUsd(instMap, p) > 0
                                                 THEN "LONG" ELSE "SHORT"])]
    ELSE acc

OkxLoop(instMap, list, n) ==
    ForEach(LAMBDA acc, p : OkxStep(instMap, acc, p), EmptyAcc, list, 1, n)

\* --- upstream payloads of position-summary ---

\* how many positions an arbitrary tail of a payload holds at most
MaxList == 2

\* a payload is some filler long ALT positions of exactly 100 USD followed by
\* an arbitrary tail; the filler lets a list grow past the cap of 25
PadCounts == {0, TopCap - 1, TopCap}

Tails(P) == UNION {[1..n -> P] : n \in 0..MaxList}

PadList(pad, k) == [i \in 1..k |-> pad]

Lists(P, pad) == {PadList(pad, k) \o t : k \in PadCounts, t \in Tails(P)}

\* Bybit /v5/position/list entries; amounts in mills, 0 where a field is
\* absent or not a finite number (n(v) = 0)
BP(symbol, side, size, positionValue, markPrice) ==
    [symbol |-> symbol, side |-> side, size |-> size,
     positionValue |-> positionValue, markPrice |-> markPrice]

BybitPositions ==
    { BP("ARBUSDT", "BUY", 2, 300000, 0),
      BP("SOLUSDT", "SELL", 2, 200000, 0),
      BP("DOGEUSDT", "BUY", 2, 0, 75002),
      BP("LINKUSDT", "SELL", 1, 100004, 0),
      BP("XRPUSDT", "SELL", 1, 99995, 0),
      BP("ADAUSDT", "BUY", 0, 0, 0),
      BP("BTCUSDT", "BUY", 1, 500000, 0),
      BP("ETHUSDT", "SELL", 3, 400000, 0) }

BybitPad == BP("PADUSDT", "BUY", 1, 100000, 0)

\* fetchJSON results for Bybit: transport failure (fetchJSON throws), HTTP
\* error, retCode error, or a position list
BybitResponses ==
    { [ok |-> FALSE, status |-> 0, retCode |-> 0, list |-> <<>>],
      [ok |-> FALSE, status |-> 500, retCode |-> 0, list |-> <<>>],
      [ok |-> TRUE, status |-> 200, retCode |-> 10001, list |-> <<>>] } \cup
    [ok : {TRUE}, status : {200}, retCode : {0},
     list : Lists(BybitPositions, BybitPad)]

\* Bitget all-position entries
BG(symbol, holdSide, total, usdt, positionValue, margin, markPrice, lastPr) ==
    [symbol |-> symbol, holdSide |-> holdSide, total |-> total, usdt |-> usdt,
     positionValue |-> positionValue, margin |-> margin,
     markPrice |-> markPrice, lastPr |-> lastPr]

BitgetPositions ==
    { BG("ARBUSDT", "LONG", 2, 300000, 0, 0, 0, 0),
      BG("SOLUSDT", "SHORT", 2, 0, 200000, 0, 0, 0),
      BG("DOGEUSDT", "SHORT", 2, 0, 0, 0, 75002, 0),
      BG("LINKUSDT", "LONG", 1, 0, 0, 120000, 0, 0),
      BG("XRPUSDT", "LONG", 1, 99995, 0, 0, 0, 0),
      BG("ADAUSDT", "LONG", 0, 0, 0, 0, 0, 0),
      BG("BTCUSDT", "LONG", 1, 500000, 0, 0, 0, 0),
      BG("SETHUSDT", "SHORT", 3, 0, 0, 0, 0, 130000) }

BitgetPad == BG("PADUSDT", "LONG", 1, 100000, 0, 0, 0, 0)

BitgetResponses ==
    { [ok |-> FALSE, status |-> 0, code |-> "", list |-> <<>>],
      [ok |-> FALSE, status |-> 500, code |-> "", list |-> <<>>],
      [ok |-> TRUE, status |-> 200, code |-> "40009", list |-> <<>>] } \cup
    [ok : {TRUE}, status : {200}, code : {"00000"},
     list : Lists(BitgetPositions, BitgetPad)]

\* OKX /api/v5/account/positions entries; posSide is LONG or SHORT in
\* long/short mode and NET, with a signed pos, in net mode
OP(instId, posSide, pos, hasNotionalUsd, notionalUsd, markPx) ==
    [instId |-> instId, posSide |-> posSide, pos |-> pos,
     hasNotionalUsd |-> hasNotionalUsd, notionalUsd |-> notionalUsd,
     markPx |-> markPx]

OkxPositionSet ==
    { OP("ARB-USDT-SWAP", "LONG", 3, TRUE, 300000, 0),
      OP("SOL-USDT-SWAP", "SHORT", 2, TRUE, 200000, 0),
      OP("SOL-USDT-SWAP", "NET", -2, TRUE, 200000, 0),
      OP("DOGE-USDT-SWAP", "NET", -2, FALSE, 0, 7500),
      OP("XRP-USDT-SWAP", "LONG", 1, TRUE, 99995, 0),
      OP("ARB-USDT", "LONG", 1, TRUE, 300000, 0),
      OP("BTC-USDT-SWAP", "LONG", 1, TRUE, 500000, 0),
      OP("ETH-USDT-SWAP", "SHORT", 1, TRUE, 400000, 0) }

OkxPad == OP("PAD-USDT-SWAP", "LONG", 1, TRUE, 100000, 0)

OkxIds == {p.instId : p \in OkxPositionSet} \cup {OkxPad.instId}

\* okxFetch outcomes: it throws on a transport error, a non-2xx status or a
\* code other than "0"
OkxPositionResponses ==
    { [ok |-> FALSE, status |-> 0, code |-> "", list |-> <<>>],
      [ok |-> TRUE, status |-> 200, code |-> "50000", list |-> <<>>] } \cup
    [ok : {TRUE}, status : {200}, code : {"0"},
     list : Lists(OkxPositionSet, OkxPad)]

\* /api/v5/public/instruments: ctVal per instrument (0: no usable ctVal)
OkxInstrumentResponses ==
    { [ok |-> FALSE, status |-> 500, code |-> "", instMap |-> [id \in OkxIds |-> 0]] }
    \cup
    [ok : {TRUE}, status : {200}, code : {"0"},
     instMap : {[id \in OkxIds |-> c] : c \in {0, 10}}]

Error500(message) == [status |-> 500, body |-> [error |-> message]]

Json200(body) == [status |-> 200, body |-> body]

PosInit ==
    /\ handler = "position-summary"
    /\ pc = "start"
    /\ query \in [exchange : {"bybit", "bitget", "okx"}]
    /\ env \in [creds : BOOLEAN]
    /\ calls = <<>>
    /\ tries = <<>>
    /\ got = <<>>
    /\ local = NoLocal
    /\ res = NoRes

\* handler with exchange=bybit: getBybitSummary, then the 200, or the 500 of
\* the catch
GetBybitSummary ==
    /\ handler = "position-summary" /\ pc = "start" /\ query.exchange = "bybit"
    /\ pc' = "done"
    /\ IF ~env.creds
         THEN /\ res' = Error500("Missing Bybit API credentials")
              /\ UNCHANGED <<calls, got>>
         ELSE \E r \in BybitResponses :
              /\ calls' = Append(calls, "bybit/v5/position/list")
              /\ got' = Append(got, r)
              /\ res' = IF ~r.ok \/ r.retCode # 0
                          THEN Error500("Bybit API Error (positions)")
                          ELSE Json200(FuturesOf("bybit",
                                         BybitLoop(r.list, Len(r.list))))
    /\ UNCHANGED <<handler, query, env, tries, local>>

\* handler with exchange=bitget: getBitgetSummary
GetBitgetSummary ==
    /\ handler = "position-summary" /\ pc = "start" /\ query.exchange = "bitget"
    /\ pc' = "done"
    /\ IF ~env.creds
         THEN /\ res' = Error500("Missing Bitget API credentials")
              /\ UNCHANGED <<calls, got>>
         ELSE \E r \in BitgetResponses :
              /\ calls' = Append(calls, "bitget/api/v2/mix/position/all-position")
              /\ got' = Append(got, r)
              /\ res' = IF ~r.ok \/ r.code # "00000"
                          THEN Error500("Bitget API Error (positions)")
                          ELSE Json200(FuturesOf("bitget",
                                         BitgetLoop(r.list, Len(r.list))))
    /\ UNCHANGED <<handler, query, env, tries, local>>

\* handler with exchange=okx: getOkxSummary up to the positions request
GetOkxPositions ==
    /\ handler = "position-summary" /\ pc = "start" /\ query.exchange = "okx"
    /\ IF ~env.creds
         THEN /\ res' = Error500("Missing OKX API credentials")
              /\ pc' = "done"
              /\ UNCHANGED <<calls, got>>
         ELSE \E r \in OkxPositionResponses :
              /\ calls' = Append(calls, "okx/api/v5/account/positions")
              /\ got' = Append(got, r)
              /\ IF ~r.ok \/ r.code # "0"
                   THEN res' = Error500("OKX API error") /\ pc' = "done"
                   ELSE res' = res /\ pc' = "okxInstruments"
    /\ UNCHANGED <<handler, query, env, tries, local>>

\* getOkxSummary from the instruments request to the summary
GetOkxInstruments ==
    /\ handler = "position-summary" /\ pc = "okxInstruments"
    /\ pc' = "done"
    /\ \E r \in OkxInstrumentResponses :
         /\ calls' = Append(calls, "okx/api/v5/public/instruments")
         /\ got' = Append(got, r)
         /\ res' = IF ~r.ok \/ r.code # "0"
                     THEN Error500("OKX API error")
                     ELSE Json200(FuturesOf("okx",
                            OkxLoop(r.instMap, got[1].list, Len(got[1].list))))
    /\ UNCHANGED <<handler, query, env, tries, local>>

PosNext ==
    GetBybitSummary \/ GetBitgetSummary \/ GetOkxPositions \/ GetOkxInstruments

SpecPos == PosInit /\ [][PosNext]_vars

(***************************************************************************)
(* api/binance-alt-summary.js: the file holds two versions of the handler, *)
(* lines 1-266 (version 1) and lines 267-624 (version 2)                   *)
(***************************************************************************)
V1 == "binance-alt-summary (lines 40-266)"
V2 == "binance-alt-summary (lines 306-624)"

EXCLUDED == {"BTC", "ETH", "USDT", "USDC"}

\* version 2, futures block
FUTURES_EXCLUDED_BASE == {"BTC", "ETH"}

\* const MIN_USD = 100, in mills
MIN_USD == 100000

\* symbol.replace(/(USDT|USDC|BUSD)$/, "")
baseAssetFromSymbol(symbol) ==
    IF EndsWith(symbol, "USDT") \/ EndsWith(symbol, "USDC")
         \/ EndsWith(symbol, "BUSD")
      THEN SubSeq(symbol, 1, Len(symbol) - 4)
      ELSE symbol

\* a Map used for lookups only
EmptyMap == [k \in {} |-> 0]
MapSet(m, key, v) == (key :> v) @@ m
MapGet(m, key) == IF key \in DOMAIN m THEN m[key] ELSE 0

\* the price tables: one iteration of `for (const it of tickAll.json)`
PriceStep(tables, it) ==
    IF it.price = 0 THEN tables
    ELSE [priceUSDT |->
            IF EndsWith(it.symbol, "USDT")
              THEN MapSet(tables.priceUSDT, baseAssetFromSymbol(it.symbol), it.price)
              ELSE tables.priceUSDT,
          priceUSDC |->
            IF EndsWith(it.symbol, "USDC")
              THEN MapSet(tables.priceUSDC, baseAssetFromSymbol(it.symbol), it.price)
              ELSE tables.priceUSDC]

PriceTables(items, n) ==
    ForEach(PriceStep, [priceUSDT |-> EmptyMap, priceUSDC |-> EmptyMap],
            items, 1, n)

\* priceUSDT.get(asset) || priceUSDC.get(asset) || 0
PriceOf(tables, asset) ==
    IF MapGet(tables.priceUSDT, asset) # 0
      THEN MapGet(tables.priceUSDT, asset)
      ELSE MapGet(tables.priceUSDC, asset)

\* assetUSD is a Map iterated in insertion order: a sequence of [asset, usd]
HasAsset(map, asset) == \E i \in 1..Len(map) : map[i].asset = asset

\* pushUSD(map, asset, usd)
pushUSD(map, asset, usd) ==
    IF asset = "" \/ asset \in EXCLUDED THEN map
    ELSE IF usd <= 0 THEN map
    ELSE IF HasAsset(map, asset)
      THEN LET i == CHOOSE j \in 1..Len(map) : map[j].asset = asset
           IN [map EXCEPT ![i].usd = @ + usd]
      ELSE Append(map, [asset |-> asset, usd |-> usd])

\* the quantity an endpoint's entry holds
WalletTotal(kind, it) ==
    CASE kind \in {"getUserAsset", "capital"} -> it.free + it.locked
      [] kind = "funding" -> it.free + it.locked + it.freeze
      [] kind \in {"marginCross", "marginIso"} ->
           it.free + it.locked + it.borrowed - it.interest
      [] OTHER -> it.totalAmount

\* mutation: an asset without a price aborts the aggregation
WalletStepNoPriceFatal(kind, tables, map, it) ==
    IF it.asset = "" \/ it.asset \in EXCLUDED THEN map
    ELSE IF kind \in {"marginCross", "marginIso"} /\ WalletTotal(kind, it) <= 0
      THEN map
    ELSE IF WalletTotal(kind, it) = 0 THEN map
    ELSE IF PriceOf(tables, it.asset) = 0 THEN <<>>
    ELSE IF WalletTotal(kind, it) * PriceOf(tables, it.asset) >= MIN_USD
      THEN pushUSD(map, it.asset,
                   WalletTotal(kind, it) * PriceOf(tables, it.asset))
    ELSE map

\* one iteration of a wallet loop; the margin loops skip total <= 0, the
\* others skip !total
WalletStep(kind, tables, map, it) ==
    IF it.asset = "" \/ it.asset \in EXCLUDED THEN map
    ELSE IF kind \in {"marginCross", "marginIso"} /\ WalletTotal(kind, it) <= 0
      THEN map
    ELSE IF WalletTotal(kind, it) = 0 THEN map
    ELSE IF PriceOf(tables, it.asset) = 0 THEN map
    ELSE IF WalletTotal(kind, it) * PriceOf(tables, it.asset) >= MIN_USD
      THEN pushUSD(map, it.asset,
                   WalletTotal(kind, it) * PriceOf(tables, it.asset))
    ELSE map

WalletLoop(kind, tables, map, items, n) ==
    ForEach(LAMBDA m, it : WalletStep(kind, tables, m, it), map, items, 1, n)

\* the futures accumulators: let altFuturesUSD = 0; let altFuturesTop = []
NoFutures == [altFuturesUSD |-> 0, altFuturesTop |-> <<>>]

FuturesEntry(pos, usd) ==
    [symbol |-> pos.symbol, base |-> baseAssetFromSymbol(pos.symbol),
     positionSide |-> pos.positionSide, positionAmt |-> pos.positionAmt,
     markPrice |-> pos.markPrice, notional |-> pos.notional,
     usd |-> Round2(usd)]

\* mutation: the sign of the exposure is kept
FuturesUsdV1Signed(pos) ==
    IF pos.notional # 0 THEN pos.notional
                        ELSE pos.positionAmt * pos.markPrice

\* version 1: const usd = Math.abs(notional || (amt * mark))
FuturesUsdV1(pos) ==
    Abs(IF pos.notional # 0 THEN pos.notional
                            ELSE pos.positionAmt * pos.markPrice)

\* version 2: |notional|, else |amt * markPrice|, else |amt * ticker price|
\* (fpx: what getFuturesPrice returns per symbol, 0 when its fetch fails)
FuturesUsdV2(fpx, pos) ==
    IF pos.notional # 0 THEN Abs(pos.notional)
    ELSE IF pos.markPrice # 0 THEN Abs(pos.positionAmt * pos.markPrice)
    ELSE Abs(pos.positionAmt * MapGet(fpx, pos.symbol))

\* mutation: the position is listed but not added to altFuturesUSD
FuturesStepV1TopOnly(acc, pos) ==
    IF pos.positionAmt = 0 THEN acc
    ELSE IF ~EndsWith(pos.symbol, "USDT") THEN acc
    ELSE IF baseAssetFromSymbol(pos.symbol) \in EXCLUDED THEN acc
    ELSE IF FuturesUsdV1(pos) >= MIN_USD
      THEN [altFuturesUSD |-> acc.altFuturesUSD,
            altFuturesTop |->
              Append(acc.altFuturesTop, FuturesEntry(pos, FuturesUsdV1(pos)))]
    ELSE acc

\* version 1 (lines 82-112): one iteration of `for (const pos of r.json)`
FuturesStepV1(acc, pos) ==
    IF pos.positionAmt = 0 THEN acc
    ELSE IF ~EndsWith(pos.symbol, "USDT") THEN acc
    ELSE IF baseAssetFromSymbol(pos.symbol) \in EXCLUDED THEN acc
    ELSE IF FuturesUsdV1(pos) >= MIN_USD
      THEN [altFuturesUSD |-> acc.altFuturesUSD + FuturesUsdV1(pos),
            altFuturesTop |->
              Append(acc.altFuturesTop, FuturesEntry(pos, FuturesUsdV1(pos)))]
    ELSE acc

\* version 2 (lines 389-423): one iteration of `for (const pos of r.json)`
FuturesStepV2(fpx, acc, pos) ==
    IF pos.positionAmt = 0 THEN acc
    ELSE IF ~EndsWith(pos.symbol, "USDT") THEN acc
    ELSE IF baseAssetFromSymbol(pos.symbol) \in FUTURES_EXCLUDED_BASE THEN acc
    ELSE IF FuturesUsdV2(fpx, pos) >= MIN_USD
      THEN [altFuturesUSD |-> acc.altFuturesUSD + FuturesUsdV2(fpx, pos),
            altFuturesTop |->
              Append(acc.altFuturesTop,
                     FuturesEntry(pos, FuturesUsdV2(fpx, pos)))]
    ELSE acc

FuturesLoopV1(list, n) == ForEach(FuturesStepV1, NoFutures, list, 1, n)

FuturesLoopV2(fpx, list, n) ==
    ForEach(LAMBDA acc, p : FuturesStepV2(fpx, acc, p), NoFutures, list, 1, n)

\* the loop, then altFuturesTop.sort(...) and altFuturesTop.slice(0, 25)
FuturesBlockV1(list) ==
    LET acc == FuturesLoopV1(list, Len(list))
    IN [altFuturesUSD |-> acc.altFuturesUSD,
        altFuturesTop |-> Slice(SortDesc(acc.altFuturesTop), TopCap)]

FuturesBlockV2(fpx, list) ==
    LET acc == FuturesLoopV2(fpx, list, Len(list))
    IN [altFuturesUSD |-> acc.altFuturesUSD,
        altFuturesTop |-> Slice(SortDesc(acc.altFuturesTop), TopCap)]

\* altWalletTop: every assetUSD entry with its usd rounded, sorted, capped
WalletTop(map) ==
    Slice(SortDesc([i \in 1..Len(map) |->
                      [asset |-> map[i].asset, usd |-> Round2(map[i].usd)]]),
          TopCap)

\* the 200 response of both versions (version 2 adds altTotalUSD)
BinanceOut(version, loc) ==
    LET altWalletUSD == SumUsd(loc.assetUSD, Len(loc.assetUSD))
        common ==
          [altWalletUSD |-> Round2(altWalletUSD),
           altWalletTop |-> WalletTop(loc.assetUSD),
           altFuturesUSD |-> Round2(loc.altFuturesUSD),
           altFuturesTop |-> loc.altFuturesTop,
           minUSD |-> MIN_USD,
           excluded |-> EXCLUDED,
           path |-> loc.usedPath]
    IN IF version = V1 THEN Json200(common)
       ELSE Json200(common @@
              [altTotalUSD |-> Round2(altWalletUSD + loc.altFuturesUSD)])

\* --- upstream payloads of binance-alt-summary ---

\* how many entries the arbitrary tail of a positionRisk / getUserAsset
\* payload holds at most
MaxPositions == 1
MaxAssets == 1

\* payloads start with no filler or with 25 filler entries of exactly 100 USD
\* on distinct assets P1..P25, so that a list can grow past the cap
BinPadCounts == {0, TopCap}

PadAsset(i) == "P" \o ToString(i)

\* /api/v3/ticker/price entries; prices in mills per coin, 0 when the price
\* is missing or not a finite number (toNum)
TK(symbol, price) == [symbol |-> symbol, price |-> price]

PadTickers == [i \in 1..TopCap |-> TK(PadAsset(i) \o "USDT", 1000)]

TickerFull ==
    << TK("ARBUSDT", 1500), TK("SOLUSDC", 150000), TK("DOGEUSDT", 150),
       TK("XRPUSDT", 1500), TK("USDCUSDT", 1000), TK("BTCUSDT", 60000000),
       TK("ARBBUSD", 9999) >> \o PadTickers

\* the same table without a usable price for DOGE
TickerNoDoge ==
    << TK("ARBUSDT", 1500), TK("SOLUSDC", 150000), TK("DOGEUSDT", 0),
       TK("XRPUSDT", 1500), TK("USDCUSDT", 1000), TK("BTCUSDT", 60000000),
       TK("ARBBUSD", 9999) >> \o PadTickers

\* fetchJson results; isArray tells whether the parsed body is an array
Failed == [ok |-> FALSE, status |-> 0, isArray |-> FALSE, list |-> <<>>]
NotArray == [ok |-> TRUE, status |-> 200, isArray |-> FALSE, list |-> <<>>]
Denied == [ok |-> FALSE, status |-> 401, isArray |-> FALSE, list |-> <<>>]
ArrayOf(list) == [ok |-> TRUE, status |-> 200, isArray |-> TRUE, list |-> list]

TickerResponses == {Failed, NotArray, ArrayOf(TickerFull), ArrayOf(TickerNoDoge)}

\* positionRisk entries: amounts in coins, notional and markPrice in mills;
\* Binance reports a short with negative positionAmt and negative notional
FP(symbol, positionAmt, notional, markPrice) ==
    [symbol |-> symbol, positionAmt |-> positionAmt, notional |-> notional,
     markPrice |-> markPrice, positionSide |-> "BOTH"]

FuturesPositions ==
    { FP("ARBUSDT", 200, 300000, 1500),
      FP("SOLUSDT", -2, 0, 100002),
      FP("DOGEUSDT", -1000, 0, 0),
      FP("ADAUSDT", 10, 99995, 0),
      FP("USDCUSDT", -1000, -1000000, 1000),
      FP("BTCUSDT", 1, 500000, 0) }

FuturesPad(i) == FP(PadAsset(i) \o "USDT", 100, 100000, 1000)

FuturesLists ==
    { [i \in 1..k |-> FuturesPad(i)] \o t :
        k \in BinPadCounts,
        t \in UNION {[1..n -> FuturesPositions] : n \in 0..MaxPositions} }

PositionResponses == {Denied, NotArray} \cup {ArrayOf(l) : l \in FuturesLists}

\* fapi/v1/ticker/price per symbol as getFuturesPrice sees it: every fetch
\* fails, or every fetch answers 150 mills
FuturesPriceMaps ==
    { [sym \in {p.symbol : p \in FuturesPositions} |-> px] : px \in {0, 150} }

\* wallet entries of every endpoint
WI(asset, free, locked, freeze, borrowed, interest, totalAmount) ==
    [asset |-> asset, free |-> free, locked |-> locked, freeze |-> freeze,
     borrowed |-> borrowed, interest |-> interest, totalAmount |-> totalAmount]

UserAssets ==
    { WI("ARB", 150, 50, 0, 0, 0, 0),
      WI("SOL", 1, 0, 0, 0, 0, 0),
      WI("DOGE", 1000, 0, 0, 0, 0, 0),
      WI("XRP", 66, 0, 0, 0, 0, 0),
      WI("USDC", 500, 0, 0, 0, 0, 0),
      WI("BTC", 1, 0, 0, 0, 0, 0) }

UserAssetPad(i) == WI(PadAsset(i), 100, 0, 0, 0, 0, 0)

UserAssetLists ==
    { [i \in 1..k |-> UserAssetPad(i)] \o t :
        k \in BinPadCounts,
        t \in UNION {[1..n -> UserAssets] : n \in 0..MaxAssets} }

UserAssetResponses == {Denied, NotArray} \cup {ArrayOf(l) : l \in UserAssetLists}

\* the fallback endpoints; margin/isolated/account pairs are flattened to
\* baseAsset, quoteAsset, baseAsset, ... in iteration order
CapitalResponses ==
    { Denied,
      ArrayOf(<< WI("ARB", 40, 0, 0, 0, 0, 0) >>),
      ArrayOf(<< WI("ARB", 150, 50, 0, 0, 0, 0), WI("USDC", 500, 0, 0, 0, 0, 0) >>) }

FundingResponses ==
    { Denied,
      ArrayOf(<< WI("ARB", 20, 10, 10, 0, 0, 0) >>),
      ArrayOf(<< WI("DOGE", 0, 0, 1000, 0, 0, 0) >>) }

MarginCrossResponses ==
    { Denied,
      ArrayOf(<< WI("ARB", 100, 0, 0, 0, 200, 0), WI("SOL", 0, 0, 0, 1, 0, 0) >>) }

MarginIsoResponses ==
    { Denied,
      ArrayOf(<< WI("ARB", 100, 0, 0, 0, 0, 0), WI("USDT", 50, 0, 0, 0, 0, 0) >>) }

\* simple-earn positions (r.json.rows)
EarnResponses ==
    { Denied,
      ArrayOf(<< WI("ARB", 0, 0, 0, 0, 0, 100), WI("ETH", 0, 0, 0, 0, 0, 2) >>) }

\* --- the handler, one action per awaited request ---

BinanceInit ==
    /\ handler \in {V1, V2}
    /\ pc = "ticker"
    /\ query = [none |-> TRUE]
    /\ env \in [creds : BOOLEAN]
    /\ calls = <<>>
    /\ tries = <<>>
    /\ got = <<>>
    /\ local = NoLocal
    /\ res = NoRes

\* what the wallet phase ends with: version 1 responds, version 2 goes on
\* to the simple-earn positions
AfterWallet(loc) ==
    IF handler = V1
      THEN pc' = "done" /\ res' = BinanceOut(V1, loc)
      ELSE pc' = "earnFlexible" /\ res' = res

\* credentials check, then 0) the spot price table
BinTicker ==
    /\ handler \in {V1, V2} /\ pc = "ticker"
    /\ IF ~env.creds
         THEN /\ res' = Error500("Missing Binance API credentials")
              /\ pc' = "done"
              /\ UNCHANGED <<calls, got, local>>
         ELSE \E r \in TickerResponses :
              /\ calls' = Append(calls, "api/v3/ticker/price")
              /\ got' = <<r>>
              /\ IF ~r.ok \/ ~r.isArray
                   THEN /\ res' = [status |-> 502,
                                   body |-> [error |-> "Failed to fetch spot prices"]]
                        /\ pc' = "done"
                        /\ local' = local
                   ELSE /\ res' = res
                        /\ pc' = IF handler = V1 THEN "futures" ELSE "serverTime"
                        /\ local' = PriceTables(r.list, Len(r.list)) @@ NoFutures
                                    @@ [assetUSD |-> <<>>, usedPath |-> "getUserAsset",
                                        userAsset |-> <<>>]
    /\ UNCHANGED <<handler, query, env, tries>>

\* version 1, 1) fapi/v2/positionRisk and the futures block
BinFuturesV1 ==
    /\ handler = V1 /\ pc = "futures"
    /\ \E r \in PositionResponses :
         /\ calls' = Append(calls, "fapi/v2/positionRisk")
         /\ got' = <<r>>
         /\ local' = IF r.ok /\ r.isArray
                       THEN FuturesBlockV1(r.list) @@ local
                       ELSE local
    /\ pc' = "userAsset"
    /\ UNCHANGED <<handler, query, env, tries, res>>

\* version 2: getServerTimeFapi before the first and the second attempt
BinServerTime ==
    /\ handler = V2 /\ pc \in {"serverTime", "serverTime2"}
    /\ \E ok \in BOOLEAN :
         calls' = Append(calls, "fapi/v1/time")
    /\ pc' = IF pc = "serverTime" THEN "fapi" ELSE "fapi2"
    /\ UNCHANGED <<handler, query, env, tries, got, local, res>>

\* version 2: fetchPositions; a first failure leads to the retry, a second
\* to PAPI; an ok answer leads to the futures block, whose loop awaits
\* getFuturesPrice for the positions without notional and markPrice
BinFapi ==
    /\ handler = V2 /\ pc \in {"fapi", "fapi2"}
    /\ \E r \in PositionResponses, fpx \in FuturesPriceMaps :
         /\ calls' = Append(calls, "fapi/v2/positionRisk")
         /\ got' = <<r, fpx>>
         /\ IF ~r.ok
              THEN /\ pc' = IF pc = "fapi" THEN "serverTime2" ELSE "papi"
                   /\ local' = local
              ELSE /\ pc' = "userAsset"
                   /\ local' = IF r.isArray
                                 THEN FuturesBlockV2(fpx, r.list) @@ local
                                 ELSE local
    /\ UNCHANGED <<handler, query, env, tries, res>>

\* version 2: papi/v1/um/positionRisk after two failed FAPI attempts
BinPapi ==
    /\ handler = V2 /\ pc = "papi"
    /\ \E rp \in PositionResponses, fpx \in FuturesPriceMaps :
         /\ calls' = Append(calls, "papi/v1/um/positionRisk")
         /\ got' = <<rp, fpx>>
         /\ local' = IF rp.ok /\ rp.isArray
                       THEN FuturesBlockV2(fpx, rp.list) @@ local
                       ELSE local
    /\ pc' = "userAsset"
    /\ UNCHANGED <<handler, query, env, tries, res>>

\* dbg.steps.push({ ..._status }): which wallet endpoint answered and
\* whether its loop ran (`r.ok && Array.isArray(...)`)
WalletStatus(kind, r) ==
    [kind |-> kind, usable |-> r.ok /\ r.isArray,
     list |-> IF r.ok /\ r.isArray THEN r.list ELSE <<>>]

\* 2-1) sapi/v3/asset/getUserAsset
BinUserAsset ==
    /\ handler \in {V1, V2} /\ pc = "userAsset"
    /\ \E r \in UserAssetResponses :
         /\ calls' = Append(calls, "sapi/v3/asset/getUserAsset")
         /\ got' = got
         /\ IF r.ok /\ r.isArray
              THEN LET loc == [local EXCEPT
                                 !.userAsset = r.list,
                                 !.assetUSD =
                                   WalletLoop("getUserAsset", local, @, r.list,
                                              Len(r.list))]
                   IN local' = loc /\ AfterWallet(loc)
              ELSE /\ local' = [local EXCEPT !.usedPath = "fallback"]
                   /\ pc' = "capital"
                   /\ res' = res
         /\ tries' = Append(tries, WalletStatus("getUserAsset", r))
    /\ UNCHANGED <<handler, query, env>>

\* one wallet loop over an endpoint's answer, skipped unless it is ok and
\* holds the array
WalletAdd(kind, r) ==
    IF r.ok /\ r.isArray
      THEN [local EXCEPT !.assetUSD =
              WalletLoop(kind, local, @, r.list, Len(r.list))]
      ELSE local

\* 2-2) fallback chain: sapi/v1/capital/config/getall
BinCapital ==
    /\ handler \in {V1, V2} /\ pc = "capital"
    /\ \E r \in CapitalResponses :
         /\ calls' = Append(calls, "sapi/v1/capital/config/getall")
         /\ got' = got
         /\ local' = WalletAdd("capital", r)
         /\ tries' = Append(tries, WalletStatus("capital", r))
    /\ pc' = "funding"
    /\ UNCHANGED <<handler, query, env, res>>

\* mutation: the chain stops at the first fallback endpoint that failed
BinFundingAfterSuccessOnly ==
    /\ handler \in {V1, V2} /\ pc = "funding"
    /\ \E r \in FundingResponses :
         /\ calls' = IF tries[Len(tries)].usable
                       THEN Append(calls, "sapi/v1/asset/get-funding-asset")
                       ELSE calls
         /\ got' = got
         /\ local' = IF tries[Len(tries)].usable THEN WalletAdd("funding", r)
                     ELSE local
         /\ tries' = Append(tries, WalletStatus("funding", r))
    /\ pc' = "marginCross"
    /\ UNCHANGED <<handler, query, env, res>>

\* sapi/v1/asset/get-funding-asset
BinFunding ==
    /\ handler \in {V1, V2} /\ pc = "funding"
    /\ \E r \in FundingResponses :
         /\ calls' = Append(calls, "sapi/v1/asset/get-funding-asset")
         /\ got' = got
         /\ local' = WalletAdd("funding", r)
         /\ tries' = Append(tries, WalletStatus("funding", r))
    /\ pc' = "marginCross"
    /\ UNCHANGED <<handler, query, env, res>>

\* sapi/v1/margin/account
BinMarginCross ==
    /\ handler \in {V1, V2} /\ pc = "marginCross"
    /\ \E r \in MarginCrossResponses :
         /\ calls' = Append(calls, "sapi/v1/margin/account")
         /\ got' = got
         /\ local' = WalletAdd("marginCross", r)
         /\ tries' = Append(tries, WalletStatus("marginCross", r))
    /\ pc' = "marginIso"
    /\ UNCHANGED <<handler, query, env, res>>

\* sapi/v1/margin/isolated/account, the last request of version 1
BinMarginIso ==
    /\ handler \in {V1, V2} /\ pc = "marginIso"
    /\ \E r \in MarginIsoResponses :
         /\ calls' = Append(calls, "sapi/v1/margin/isolated/account")
         /\ got' = got
         /\ local' = WalletAdd("marginIso", r)
         /\ AfterWallet(WalletAdd("marginIso", r))
         /\ tries' = Append(tries, WalletStatus("marginIso", r))
    /\ UNCHANGED <<handler, query, env>>

\* version 2, 2-3) simple-earn/flexible/position
BinEarnFlexible ==
    /\ handler = V2 /\ pc = "earnFlexible"
    /\ \E r \in EarnResponses :
         /\ calls' = Append(calls, "sapi/v1/simple-earn/flexible/position")
         /\ got' = got
         /\ local' = WalletAdd("earn", r)
         /\ tries' = Append(tries, WalletStatus("earn", r))
    /\ pc' = "earnLocked"
    /\ UNCHANGED <<handler, query, env, res>>

\* version 2: simple-earn/locked/position, then the totals and the 200
BinEarnLocked ==
    /\ handler = V2 /\ pc = "earnLocked"
    /\ \E r \in EarnResponses :
         /\ calls' = Append(calls, "sapi/v1/simple-earn/locked/position")
         /\ got' = got
         /\ local' = WalletAdd("earn", r)
         /\ res' = BinanceOut(V2, WalletAdd("earn", r))
         /\ tries' = Append(tries, WalletStatus("earn", r))
    /\ pc' = "done"
    /\ UNCHANGED <<handler, query, env>>

BinanceNext ==
    \/ BinTicker \/ BinFuturesV1 \/ BinServerTime \/ BinFapi \/ BinPapi
    \/ BinUserAsset \/ BinCapital \/ BinFunding \/ BinMarginCross
    \/ BinMarginIso \/ BinEarnFlexible \/ BinEarnLocked

SpecBinance == BinanceInit /\ [][BinanceNext]_vars

(***************************************************************************)
(* part_004: the binance-alt-summary variant that values the wallet by     *)
(* btcValuation.  getAltWalletUSD and getAltFuturesUSD run under           *)
(* Promise.all: both requests are issued at once and answered in any order.*)
(* Symbols and assets arrive upper-case, as Binance sends them.            *)
(***************************************************************************)
P4 == "part_004/binance-alt-summary"

P4_EXCLUDED == {"BTC", "ETH"}
P4_MIN_USD == 100000

\* wallet.items?.slice(0, 20), futures.items?.slice(0, 20)
P4TopCap == 20

\* symbol.endsWith("USDT") ? symbol.slice(0, -5) : symbol
P4Base(symbol) ==
    IF EndsWith(symbol, "USDT")
      THEN (IF Len(symbol) > 5 THEN SubSeq(symbol, 1, Len(symbol) - 5) ELSE "")
      ELSE symbol

\* map.set(base, (map.get(base) || 0) + usd) on a Map kept in insertion order
P4MapAdd(map, base, usd) ==
    IF HasAsset(map, base)
      THEN LET i == CHOOSE j \in 1..Len(map) : map[j].asset = base
           IN [map EXCEPT ![i].usd = @ + usd]
      ELSE Append(map, [asset |-> base, usd |-> usd])

\* getAltFuturesUSD: one iteration of `for (const p of r.json)`
P4FuturesStep(map, p) ==
    IF p.positionAmt = 0 THEN map
    ELSE IF P4Base(p.symbol) \in P4_EXCLUDED THEN map
    ELSE IF Abs(p.positionAmt * p.markPrice) >= P4_MIN_USD
      THEN P4MapAdd(map, P4Base(p.symbol), Abs(p.positionAmt * p.markPrice))
    ELSE map

\* Array.from(map.entries()).map(... usd.toFixed(2) ...).sort(...)
P4Items(map) ==
    SortDesc([i \in 1..Len(map) |->
                [asset |-> map[i].asset, usd |-> Round2(map[i].usd)]])

P4Result(totalUSD, items, reason) ==
    [totalUSD |-> totalUSD, items |-> items, reason |-> reason]

\* getAltFuturesUSD on the answer r of fapi/v2/positionRisk
getAltFuturesUSD(r) ==
    IF ~r.ok \/ ~r.isArray THEN P4Result(0, <<>>, "futures_fetch_failed")
    ELSE LET items == P4Items(ForEach(P4FuturesStep, <<>>, r.list, 1, Len(r.list)))
         IN P4Result(Round2(SumUsd(items, Len(items))), items, "")

\* getAltWalletUSD: one iteration of `for (const a of r.json)`; btcValuation
\* is in thousandths of a BTC and btcUsdt in USD, their product in mills
P4WalletStep(btcUsdt, acc, a) ==
    IF a.asset = "" \/ a.asset \in P4_EXCLUDED THEN acc
    ELSE IF a.free + a.locked + a.freeze + a.withdrawing > 0
            /\ a.btcValuation * btcUsdt >= P4_MIN_USD
      THEN [totalUSD |-> acc.totalUSD + a.btcValuation * btcUsdt,
            items |-> Append(acc.items,
                        [asset |-> a.asset,
                         qty |-> a.free + a.locked + a.freeze + a.withdrawing,
                         usd |-> Round2(a.btcValuation * btcUsdt)])]
    ELSE acc

\* getAltWalletUSD once getBtcUsdt has returned btcUsdt
P4Wallet(btcUsdt, list) ==
    IF btcUsdt = 0 THEN P4Result(0, <<>>, "no_btcusdt_price")
    ELSE LET acc == ForEach(LAMBDA s, a : P4WalletStep(btcUsdt, s, a),
                            [totalUSD |-> 0, items |-> <<>>],
                            list, 1, Len(list))
         IN P4Result(Round2(acc.totalUSD), SortDesc(acc.items), "")

\* the 200 payload
P4Out(loc) ==
    LET payload == [altWalletUSD |-> loc.wallet.totalUSD,
                    altWalletTop |-> Slice(loc.wallet.items, P4TopCap),
                    altFuturesUSD |-> loc.futures.totalUSD,
                    altFuturesTop |-> Slice(loc.futures.items, P4TopCap),
                    minUSD |-> P4_MIN_USD,
                    excluded |-> P4_EXCLUDED]
    IN Json200(IF query.debug
                 THEN payload @@ [debug |-> [wallet |-> loc.wallet.reason]]
                 ELSE payload)

\* --- upstream payloads of part_004 ---

P4Positions ==
    { FP("ARBUSDT", 200, 0, 1500),
      FP("SOLUSDT", -2, 0, 100002),
      FP("ADAUSDT", 10, 0, 500),
      FP("BTCUSDT", 1, 0, 60000000),
      FP("ETHUSDT", -1, 0, 3000000) }

P4PositionResponses ==
    {Denied, NotArray} \cup
    { ArrayOf(l) : l \in UNION {[1..n -> P4Positions] : n \in 0..MaxPositions} }

W4(asset, free, locked, btcValuation) ==
    [asset |-> asset, free |-> free, locked |-> locked, freeze |-> 0,
     withdrawing |-> 0, btcValuation |-> btcValuation]

P4Assets ==
    { W4("ARB", 150, 50, 5), W4("DOGE", 1000, 0, 1), W4("ETH", 1, 0, 50) }

P4UserAssetResponses ==
    {Denied} \cup
    { ArrayOf(l) : l \in UNION {[1..n -> P4Assets] : n \in 0..MaxAssets} }

\* what a block of getBtcUsdt reads as p when `r.ok && p > 0` holds, in USD;
\* 0 stands for every answer the block rejects
P4BtcPrices == {0, 60000}

\* --- the handler ---

P4Init ==
    /\ handler = P4
    /\ pc = "start"
    /\ query \in [debug : BOOLEAN]
    /\ env \in [creds : BOOLEAN]
    /\ calls = <<>>
    /\ tries = <<>>
    /\ got = <<>>
    /\ local = NoLocal
    /\ res = NoRes

\* Promise.all resolves when the wallet side reached wpc = "walletDone" and
\* the futures side has answered; the handler then sends the 200
P4Finish(loc, wpc) ==
    IF wpc = "walletDone" /\ ~loc.futuresPending
      THEN pc' = "done" /\ res' = P4Out(loc)
      ELSE pc' = wpc /\ res' = res

\* credentials check, then both functions start and issue their request
P4Start ==
    /\ handler = P4 /\ pc = "start"
    /\ IF ~env.creds
         THEN /\ res' = Error500("Missing Binance API credentials")
              /\ pc' = "done"
              /\ UNCHANGED <<calls, local>>
         ELSE /\ calls' = <<"sapi/v3/asset/getUserAsset", "fapi/v2/positionRisk">>
              /\ local' = [futuresPending |-> TRUE,
                           futures |-> P4Result(0, <<>>, ""),
                           wallet |-> P4Result(0, <<>>, ""),
                           userAsset |-> <<>>]
              /\ pc' = "userAsset"
              /\ res' = res
    /\ UNCHANGED <<handler, query, env, tries, got>>

\* getAltFuturesUSD resumes with the answer of fapi/v2/positionRisk
P4PositionRisk ==
    /\ handler = P4
    /\ pc \in {"userAsset", "btcBinance", "btcBybit", "btcCoinbase", "walletDone"}
    /\ local.futuresPending
    /\ \E r \in P4PositionResponses :
         /\ got' = <<r>>
         /\ local' = [local EXCEPT !.futuresPending = FALSE,
                                   !.futures = getAltFuturesUSD(r)]
         /\ P4Finish([local EXCEPT !.futuresPending = FALSE,
                                   !.futures = getAltFuturesUSD(r)], pc)
    /\ UNCHANGED <<handler, query, env, calls, tries>>

\* getAltWalletUSD resumes with the answer of getUserAsset
P4UserAsset ==
    /\ handler = P4 /\ pc = "userAsset"
    /\ \E r \in P4UserAssetResponses :
         IF ~r.ok \/ ~r.isArray
           THEN /\ local' = [local EXCEPT !.wallet =
                               P4Result(0, <<>>, "wallet_fetch_failed")]
                /\ P4Finish([local EXCEPT !.wallet =
                               P4Result(0, <<>>, "wallet_fetch_failed")],
                            "walletDone")
                /\ calls' = calls
           ELSE /\ local' = [local EXCEPT !.userAsset = r.list]
                /\ calls' = Append(calls, "binance BTCUSDT")
                /\ pc' = "btcBinance"
                /\ res' = res
    /\ UNCHANGED <<handler, query, env, tries, got>>

\* one block of getBtcUsdt reading p: return p when the source is ok with
\* p > 0, else go on to the next source, and return 0 after the last
P4BtcBlock(p, next, nextCall) ==
    IF p > 0 \/ next = "walletDone"
      THEN /\ local' = [local EXCEPT !.wallet = P4Wallet(p, local.userAsset)]
           /\ P4Finish([local EXCEPT !.wallet = P4Wallet(p, local.userAsset)],
                       "walletDone")
           /\ calls' = calls
      ELSE /\ calls' = Append(calls, nextCall)
           /\ pc' = next
           /\ UNCHANGED <<local, res>>

\* api.binance.com/api/v3/ticker/price?symbol=BTCUSDT
P4BtcBinance ==
    /\ handler = P4 /\ pc = "btcBinance"
    /\ \E p \in P4BtcPrices : P4BtcBlock(p, "btcBybit", "bybit BTCUSDT")
    /\ UNCHANGED <<handler, query, env, tries, got>>

\* api.bybit.com/v5/market/tickers?category=spot&symbol=BTCUSDT
P4BtcBybit ==
    /\ handler = P4 /\ pc = "btcBybit"
    /\ \E p \in P4BtcPrices : P4BtcBlock(p, "btcCoinbase", "coinbase BTC-USD")
    /\ UNCHANGED <<handler, query, env, tries, got>>

\* api.exchange.coinbase.com/products/BTC-USD/ticker
P4BtcCoinbase ==
    /\ handler = P4 /\ pc = "btcCoinbase"
    /\ \E p \in P4BtcPrices : P4BtcBlock(p, "walletDone", "")
    /\ UNCHANGED <<handler, query, env, tries, got>>

P4Next ==
    \/ P4Start \/ P4PositionRisk \/ P4UserAsset
    \/ P4BtcBinance \/ P4BtcBybit \/ P4BtcCoinbase

SpecP4 == P4Init /\ [][P4Next]_vars

(***************************************************************************)
(* part_005: solana-balance (lines 197-300).  Token values are in mills.   *)
(***************************************************************************)
SOL == "solana-balance"

\* toNum(v, d): Number(v) when it is finite, else the default d
toNum(raw, d) == IF IsFinite(ToNumber(raw)) THEN ToNumber(raw).v ELSE d

\* the default of `toNum(req.query?.minUSD, 10)`, in mills
SolDefaultMinUSD == 10000

\* usd = toNum(it.quote, qty * quoteRate)
SolUsd(it) == toNum(it.quote, it.qty * it.quote_rate)

\* mutation: the minUSD test is dropped
SolStepNoThreshold(minUSD, acc, it) ==
    IF SolUsd(it) > 0
      THEN [totalUSD |-> acc.totalUSD + SolUsd(it),
            top |-> Append(acc.top,
                      [symbol |-> it.symbol, qty |-> it.qty,
                       priceUSD |-> it.quote_rate,
                       usd |-> Round2(SolUsd(it))])]
      ELSE acc

\* one iteration of `for (const it of items)`: kept when
\* usd >= minUSD && usd > 0
SolStep(minUSD, acc, it) ==
    IF SolUsd(it) >= minUSD /\ SolUsd(it) > 0
      THEN [totalUSD |-> acc.totalUSD + SolUsd(it),
            top |-> Append(acc.top,
                      [symbol |-> it.symbol, qty |-> it.qty,
                       priceUSD |-> it.quote_rate,
                       usd |-> Round2(SolUsd(it))])]
      ELSE acc

\* the 200 payload: totals, top.sort(...), top.slice(0, 25)
SolOut(addr, minUSD, items) ==
    LET acc == ForEach(LAMBDA a, it : SolStep(minUSD, a, it),
                       [totalUSD |-> 0, top |-> <<>>], items, 1, Len(items))
    IN Json200([address |-> addr,
                minUSD |-> minUSD,
                totalUSD |-> Round2(acc.totalUSD),
                top |-> Slice(SortDesc(acc.top), TopCap),
                countAll |-> Len(items)])

\* --- inbound query and upstream payloads of solana-balance ---

\* req.query.minUSD: absent, "0", "0.004", "10.004", "-5", "abc"
SolMinUsdRaw ==
    { RawUndefined, RawStr(0), RawStr(4), RawStr(10004), RawStr(-5000), RawText }

\* how many tokens the arbitrary tail of a balances payload holds at most
MaxTokens == 1

TokenItem(symbol, qty, quote_rate, quote) ==
    [symbol |-> symbol, qty |-> qty, quote_rate |-> quote_rate, quote |-> quote]

SolTokens ==
    { TokenItem("SOL", 2, 150000, RawNum(300000)),
      TokenItem("USDC", 10, 1000, RawNum(10004)),
      TokenItem("DUST", 1, 4, RawUndefined),
      TokenItem("BONK", 5, 100000, RawNull),
      TokenItem("DEBT", 1, 0, RawNum(-20000)) }

SolPad(i) == TokenItem(PadAsset(i), 100, 1000, RawNum(100000))

SolLists ==
    { [i \in 1..k |-> SolPad(i)] \o t :
        k \in BinPadCounts,
        t \in UNION {[1..n -> SolTokens] : n \in 0..MaxTokens} }

\* fetchJson results: hasData tells whether r.json?.data is truthy
SolAnswer(ok, status, hasData, items) ==
    [ok |-> ok, status |-> status, hasData |-> hasData, items |-> items]

SolResponses ==
    { SolAnswer(FALSE, 0, FALSE, <<>>), SolAnswer(FALSE, 429, FALSE, <<>>),
      SolAnswer(FALSE, 500, TRUE, <<>>), SolAnswer(TRUE, 200, FALSE, <<>>) }
    \cup { SolAnswer(TRUE, 200, TRUE, l) : l \in SolLists }

\* the request of attempt k with the pause that precedes it:
\* fetchJson(url), delay(500) + fetchJson(url), delay(1000) + fetchJson(url)
SolAttempt(k) ==
    [url |-> "balances_v2",
     delay |-> IF k = 1 THEN 0 ELSE IF k = 2 THEN 500 ELSE 1000]

\* mutation: every failed attempt is repeated
SolRetriesAnyFailure(r, attempts) == ~r.ok /\ attempts < 3

\* `if (!r.ok && r.status === 429)`, present after the first and the second
\* attempt only
SolRetries(r, attempts) == ~r.ok /\ r.status = 429 /\ attempts < 3

\* --- the handler ---

SolInit ==
    /\ handler = SOL
    /\ pc = "start"
    /\ query \in [addr : {"", "So1anaAddr"}, minUSD : SolMinUsdRaw]
    /\ env \in [creds : BOOLEAN]
    /\ calls = <<>>
    /\ tries = <<>>
    /\ got = <<>>
    /\ local = NoLocal
    /\ res = NoRes

\* the checks before the first request, then `let r = await fetchJson(url)`
SolStart ==
    /\ handler = SOL /\ pc = "start"
    /\ IF ~env.creds
         THEN /\ res' = Error500("Missing COVALENT_API_KEY")
              /\ pc' = "done"
              /\ UNCHANGED <<calls, local>>
         ELSE IF query.addr = ""
           THEN /\ res' = [status |-> 400,
                           body |-> [error |-> "addr (Solana address) required"]]
                /\ pc' = "done"
                /\ UNCHANGED <<calls, local>>
         ELSE /\ local' = [minUSD |-> toNum(query.minUSD, SolDefaultMinUSD)]
              /\ calls' = <<SolAttempt(1)>>
              /\ pc' = "fetch"
              /\ res' = res
    /\ UNCHANGED <<handler, query, env, tries, got>>

\* an answer arrives: a 429 on the first or second attempt is retried after
\* the delay; otherwise the handler responds 502 or 200
SolFetch ==
    /\ handler = SOL /\ pc = "fetch"
    /\ \E r \in SolResponses :
         /\ got' = <<r>>
         /\ tries' = Append(tries, [ok |-> r.ok, status |-> r.status,
                                    hasData |-> r.hasData])
         /\ IF SolRetries(r, Len(calls))
              THEN /\ calls' = Append(calls, SolAttempt(Len(calls) + 1))
                   /\ pc' = "fetch"
                   /\ res' = res
              ELSE /\ calls' = calls
                   /\ pc' = "done"
                   /\ res' = IF ~r.ok \/ ~r.hasData
                               THEN [status |-> 502,
                                     body |-> [error |-> "Covalent API failed",
                                               status |-> r.status]]
                               ELSE SolOut(query.addr, local.minUSD, r.items)
    /\ UNCHANGED <<handler, query, env, local>>

SolNext == SolStart \/ SolFetch

SpecSol == SolInit /\ [][SolNext]_vars

(***************************************************************************)
(* api/okx-balance.js (second handler, lines 83-305) and part_012          *)
(***************************************************************************)
OKXB == "okx-balance (lines 83-305)"

OKX12 == "part_012/okx-balance"

\* Math.round(x * 100) / 100 on mills
MathRound2(x) == ((x + 5) \div 10) * 10

\* the five okxFetch calls of the handler: path and key of diag
OkxBalPaths ==
    << "/api/v5/account/balance", "/api/v5/asset/balances",
       "/api/v5/finance/savings/balance",
       "/api/v5/finance/staking-defi/positions",
       "/api/v5/asset/asset-valuation?ccy=USD" >>

OkxBalDiagKeys ==
    << "account_balance", "asset_balances", "finance_savings_balance",
       "finance_staking_defi_positions", "asset_valuation" >>

\* usdMap[ccy] = (usdMap[ccy] || 0) + usd, keys in insertion order
OkxUsdMapAdd(usdMap, d) ==
    IF d.usd = 0 THEN usdMap
    ELSE IF \E j \in 1..Len(usdMap) : usdMap[j].ccy = d.ccy
      THEN LET i == CHOOSE j \in 1..Len(usdMap) : usdMap[j].ccy = d.ccy
           IN [usdMap EXCEPT ![i].usd = @ + d.usd]
      ELSE Append(usdMap, [ccy |-> d.ccy, usd |-> d.usd])

sumUSDMapToList(usdMap) ==
    SortDesc(SelectSeq(usdMap, LAMBDA e : e.usd # 0))

\* what one okxFetch call gives: "thrown" (message in error), "_error"
\* (debug mode of okx-balance.js) or "data"
okxFetch(h, debug, creds, answer, path) ==
    LET err == IF ~creds THEN "Missing OKX API credentials"
               ELSE IF ~answer.ok THEN "OKX " \o path \o " error"
               ELSE ""
    IN IF err = "" THEN [kind |-> "data", data |-> answer.data, error |-> ""]
       ELSE IF h = OKXB /\ debug
         THEN [kind |-> "_error", data |-> <<>>, error |-> err]
       ELSE [kind |-> "thrown", data |-> <<>>, error |-> err]

OkxBalStart ==
    [tradingUSD |-> 0, fundingUSD |-> 0, earnSavingsUSD |-> 0,
     earnDefiUSD |-> 0, valuationUSD |-> 0,
     tradingCoins |-> <<>>, fundingCoins |-> <<>>, earnSavingsCoins |-> <<>>,
     earnDefiCoins |-> <<>>, diag |-> {}, thrown |-> ""]

\* the block of the handler around call i, on the outcome f of okxFetch
OkxBalBlock(h, loc, i, f) ==
    IF f.kind = "thrown"
      THEN IF h = OKX12 THEN loc            \* catch (e) { } of the block
           ELSE [loc EXCEPT !.thrown = f.error]
    ELSE IF f.kind = "_error"
      THEN [loc EXCEPT !.diag = @ \cup {OkxBalDiagKeys[i]}]
    ELSE IF i = 1
      THEN IF f.data = <<>> THEN loc
           ELSE [loc EXCEPT
                   !.tradingUSD = f.data[1].totalEq,
                   !.tradingCoins =
                     sumUSDMapToList(
                       ForEach(OkxUsdMapAdd, <<>>, f.data[1].details, 1,
                               Len(f.data[1].details)))]
    ELSE IF i = 2
      THEN [loc EXCEPT
              !.fundingUSD = SumUsd(f.data, Len(f.data)),
              !.fundingCoins =
                sumUSDMapToList(ForEach(OkxUsdMapAdd, <<>>, f.data, 1,
                                        Len(f.data)))]
    ELSE IF i = 3
      THEN [loc EXCEPT
              !.earnSavingsUSD = SumUsd(f.data, Len(f.data)),
              !.earnSavingsCoins =
                sumUSDMapToList(ForEach(OkxUsdMapAdd, <<>>, f.data, 1,
                                        Len(f.data)))]
    ELSE IF i = 4
      THEN [loc EXCEPT
              !.earnDefiUSD = SumUsd(f.data, Len(f.data)),
              !.earnDefiCoins =
                sumUSDMapToList(ForEach(OkxUsdMapAdd, <<>>, f.data, 1,
                                        Len(f.data)))]
    ELSE IF f.data = <<>> THEN loc
         ELSE [loc EXCEPT !.valuationUSD = f.data[1].totalBal]

\* the end of the handler: the catch of the outer try, or the 200
OkxBalOut(h, debug, loc) ==
    IF loc.thrown # ""
      THEN [status |-> 500, body |-> [ok |-> FALSE, error |-> loc.thrown]]
    ELSE LET subtotal == loc.tradingUSD + loc.fundingUSD
                           + loc.earnSavingsUSD + loc.earnDefiUSD
             merged == loc.tradingCoins \o loc.fundingCoins
                         \o loc.earnSavingsCoins \o loc.earnDefiCoins
             out ==
               [mode |-> "Advanced / Multi-Currency",
                totals |->
                  [tradingUSD |-> MathRound2(loc.tradingUSD),
                   fundingUSD |-> MathRound2(loc.fundingUSD),
                   earnSavingsUSD |-> MathRound2(loc.earnSavingsUSD),
                   earnDefiUSD |-> MathRound2(loc.earnDefiUSD),
                   subtotalUSD |-> MathRound2(subtotal),
                   valuationUSD |-> MathRound2(loc.valuationUSD)],
                totalUSD |-> MathRound2(IF loc.valuationUSD > 0
                                          THEN loc.valuationUSD ELSE subtotal),
                topCoinsUSD |->
                  Slice(sumUSDMapToList(
                          ForEach(OkxUsdMapAdd, <<>>, merged, 1, Len(merged))),
                        5)]
         IN Json200(IF h = OKXB /\ debug
                      THEN out @@ [debug |-> loc.diag] ELSE out)

\* --- what OKX answers to the five calls ---

OkxFail == [ok |-> FALSE, data |-> <<>>]

OkxData(data) == [ok |-> TRUE, data |-> data]

OkxCoin(ccy, usd) == [ccy |-> ccy, usd |-> usd]

OkxAccountAnswers ==
    { OkxFail, OkxData(<<>>),
      OkxData(<< [totalEq |-> 300004,
                  details |-> <<OkxCoin("SOL", 300004)>>] >>) }

OkxCoinAnswers ==
    { OkxFail, OkxData(<<OkxCoin("ARB", 50000), OkxCoin("SOL", 150000)>>) }

OkxValuationAnswers ==
    { OkxFail, OkxData(<<[totalBal |-> 0]>>), OkxData(<<[totalBal |-> 700000]>>) }

OkxBalAnswers ==
    { <<a, f, s, d, v>> :
        a \in OkxAccountAnswers, f \in OkxCoinAnswers, s \in OkxCoinAnswers,
        d \in OkxCoinAnswers, v \in OkxValuationAnswers }

\* --- the handler ---

OkxBalInit ==
    /\ handler \in {OKXB, OKX12}
    /\ pc = "call"
    /\ query \in [debug : BOOLEAN]
    /\ env \in [creds : BOOLEAN, okx : OkxBalAnswers]
    /\ calls = <<>>
    /\ tries = <<>>
    /\ got = <<>>
    /\ local = OkxBalStart
    /\ res = NoRes

\* block i of the handler: the okxFetch call and what the block does with it
OkxBalCall(i) ==
    LET f == okxFetch(handler, query.debug, env.creds, env.okx[i],
                      OkxBalPaths[i])
        loc == OkxBalBlock(handler, local, i, f)
    IN /\ local' = loc
       /\ tries' = Append(tries, f.kind)
       /\ calls' = IF env.creds THEN Append(calls, OkxBalPaths[i]) ELSE calls
       /\ IF loc.thrown # "" \/ i = 5
            THEN pc' = "done" /\ res' = OkxBalOut(handler, query.debug, loc)
            ELSE pc' = pc /\ res' = res

OkxBalAccount ==
    /\ handler \in {OKXB, OKX12} /\ pc = "call" /\ Len(tries) = 0
    /\ OkxBalCall(1)
    /\ UNCHANGED <<handler, query, env, got>>

OkxBalFunding ==
    /\ handler \in {OKXB, OKX12} /\ pc = "call" /\ Len(tries) = 1
    /\ OkxBalCall(2)
    /\ UNCHANGED <<handler, query, env, got>>

OkxBalSavings ==
    /\ handler \in {OKXB, OKX12} /\ pc = "call" /\ Len(tries) = 2
    /\ OkxBalCall(3)
    /\ UNCHANGED <<handler, query, env, got>>

OkxBalDefi ==
    /\ handler \in {OKXB, OKX12} /\ pc = "call" /\ Len(tries) = 3
    /\ OkxBalCall(4)
    /\ UNCHANGED <<handler, query, env, got>>

OkxBalValuation ==
    /\ handler \in {OKXB, OKX12} /\ pc = "call" /\ Len(tries) = 4
    /\ OkxBalCall(5)
    /\ UNCHANGED <<handler, query, env, got>>

OkxBalNext ==
    \/ OkxBalAccount \/ OkxBalFunding \/ OkxBalSavings
    \/ OkxBalDefi \/ OkxBalValuation

SpecOkxBal == OkxBalInit /\ [][OkxBalNext]_vars

\* the run of the handler as a function of the flag and of the answers
OkxBalRun(h, debug, creds, answers) ==
    OkxBalOut(h, debug,
      ForEach(LAMBDA loc, i :
                IF loc.thrown # "" THEN loc
                ELSE OkxBalBlock(h, loc, i,
                       okxFetch(h, debug, creds, answers[i], OkxBalPaths[i])),
              OkxBalStart, <<1, 2, 3, 4, 5>>, 1, 5))

(***************************************************************************)
(* The signed requests: the timestamp each handler signs and the one it    *)
(* transmits.  The clock is local.now; every Date.now() or new Date() is a *)
(* read of it, numbered in local.reads, and the clock may advance by       *)
(* d in 0..1 before a read.  crypto.createHmac(..).update(s).digest() is   *)
(* modelled as the injective hmac(s).                                      *)
(***************************************************************************)
BYB == "bybit-balance"

ACC == "account-summary (lines 70-133)"

MaxClock == 2

\* serverTime of fapi/v1/time relative to the local clock
ServerSkews == {-1, 0, 2}

hmac(prehash) == <<"hmac-sha256", prehash>>

\* an outbound signed request: the timestamp it transmits (header or query
\* parameter), its signature, and the clock read its timestamp came from
SignedRequest(endpoint, timestamp, prehash, read) ==
    [endpoint |-> endpoint, timestamp |-> timestamp,
     signature |-> hmac(prehash), read |-> read]

\* `${endpoint}?${qs}&signature=${sign(secretKey, qs)}`
BinanceUrl(endpoint, qs, read) ==
    SignedRequest(endpoint, qs.timestamp, qs, read)

\* mutation: the drift is added to the transmitted timestamp only
fetchPositionsSignsLocal(now, drift, read) ==
    SignedRequest("fapi/v2/positionRisk", now + drift,
                  [timestamp |-> now, recvWindow |-> 5000], read)

\* fetchPositions(): ts = (tsOverride ?? Date.now()) + drift
fetchPositions(now, drift, read) ==
    BinanceUrl("fapi/v2/positionRisk",
               [timestamp |-> now + drift, recvWindow |-> 5000], read)

\* bybit-balance: toSign = timestamp + apiKey + recvWindow + queryString,
\* header X-BAPI-TIMESTAMP: timestamp
BybitWalletRequest(now, read) ==
    SignedRequest("/v5/account/wallet-balance", now,
                  [timestamp |-> now, apiKey |-> "key", recvWindow |-> "5000",
                   queryString |-> "accountType=UNIFIED"], read)

\* okxFetch of position-summary: prehash = ts + method + requestPath + body,
\* header OK-ACCESS-TIMESTAMP: ts
PosOkxRequest(endpoint, q, now, read) ==
    SignedRequest(endpoint, now,
                  [timestamp |-> now, method |-> "GET",
                   requestPath |-> endpoint \o "?" \o q, body |-> ""], read)

\* getBitgetSummary: bitgetSign(ts, method, path, query, "", apiSecret),
\* header ACCESS-TIMESTAMP: ts
BitgetPositionRequest(now, read) ==
    SignedRequest("/api/v2/mix/position/all-position", now,
                  [timestamp |-> now, method |-> "GET",
                   path |-> "/api/v2/mix/position/all-position", body |-> ""],
                  read)

OkxEndpoints == <<"/api/v5/account/positions", "/api/v5/public/instruments">>

AccEndpoints == <<"vapi/v1/account", "fapi/v2/positionRisk">>

\* the signed requests of binance-alt-summary in order, with the query
\* parameters each adds to the timestamp
V1Chain ==
    << [endpoint |-> "fapi/v2/positionRisk", extra |-> "none"],
       [endpoint |-> "sapi/v3/asset/getUserAsset", extra |-> "needBtcValuation"],
       [endpoint |-> "sapi/v1/capital/config/getall", extra |-> "none"],
       [endpoint |-> "sapi/v1/asset/get-funding-asset", extra |-> "none"],
       [endpoint |-> "sapi/v1/margin/account", extra |-> "none"],
       [endpoint |-> "sapi/v1/margin/isolated/account", extra |-> "symbols"] >>

V2WalletChain ==
    SubSeq(V1Chain, 2, 6) \o
    << [endpoint |-> "sapi/v1/simple-earn/flexible/position", extra |-> "none"],
       [endpoint |-> "sapi/v1/simple-earn/locked/position", extra |-> "none"] >>

\* new URLSearchParams({ timestamp: String(ts), ... })
ChainQs(e, ts) == [timestamp |-> ts, extra |-> e.extra]

SignInit ==
    /\ handler \in {BYB, ACC, "position-summary", V1, V2}
    /\ pc = "start"
    /\ IF handler = "position-summary"
         THEN query \in [exchange : {"bitget", "okx"}]
         ELSE query = [none |-> TRUE]
    /\ env = [creds |-> TRUE]
    /\ calls = <<>>
    /\ tries = <<>>
    /\ got = <<>>
    /\ local = [now |-> 0, reads |-> 0, ts |-> 0, tsRead |-> 0, drift |-> 0,
                step |-> 1]
    /\ res = NoRes

\* the clock may advance by d before the read
CanRead(d) == local.now + d <= MaxClock

\* bybit-balance.js: the wallet-balance request
SignBybit ==
    /\ handler = BYB /\ pc = "start"
    /\ \E d \in 0..1 :
         /\ CanRead(d)
         /\ local' = [local EXCEPT !.now = @ + d, !.reads = @ + 1]
         /\ calls' = Append(calls,
                       BybitWalletRequest(local.now + d, local.reads + 1))
    /\ pc' = "done"
    /\ UNCHANGED <<handler, query, env, tries, got, res>>

\* getBitgetSummary: the all-position request
SignBitget ==
    /\ handler = "position-summary" /\ pc = "start"
    /\ query.exchange = "bitget"
    /\ \E d \in 0..1 :
         /\ CanRead(d)
         /\ local' = [local EXCEPT !.now = @ + d, !.reads = @ + 1]
         /\ calls' = Append(calls,
                       BitgetPositionRequest(local.now + d, local.reads + 1))
    /\ pc' = "done"
    /\ UNCHANGED <<handler, query, env, tries, got, res>>

\* getOkxSummary: okxFetch for the positions, then for the instruments; a
\* failed okxFetch throws
SignOkx ==
    /\ handler = "position-summary" /\ pc = "start"
    /\ query.exchange = "okx"
    /\ \E d \in 0..1, ok \in BOOLEAN :
         /\ CanRead(d)
         /\ local' = [local EXCEPT !.now = @ + d, !.reads = @ + 1,
                                   !.step = @ + 1]
         /\ calls' = Append(calls,
                       PosOkxRequest(OkxEndpoints[local.step], "instType=SWAP",
                                     local.now + d, local.reads + 1))
         /\ pc' = IF ok /\ local.step = 1 THEN pc ELSE "done"
    /\ UNCHANGED <<handler, query, env, tries, got, res>>

\* account-summary.js: timestamp and query are built once; sigPM and
\* sigFutures are both sign(query)
SignAccount ==
    /\ handler = ACC /\ pc = "start"
    /\ \E d \in 0..1, ok \in BOOLEAN :
         /\ IF local.step = 1 THEN CanRead(d) ELSE d = 0
         /\ LET loc == IF local.step = 1
                         THEN [local EXCEPT !.now = @ + d, !.reads = @ + 1,
                                            !.ts = local.now + d,
                                            !.tsRead = local.reads + 1]
                         ELSE local
            IN /\ local' = [loc EXCEPT !.step = @ + 1]
               /\ calls' = Append(calls,
                             BinanceUrl(AccEndpoints[local.step],
                                        [timestamp |-> loc.ts], loc.tsRead))
         /\ pc' = IF ok /\ local.step = 1 THEN pc ELSE "done"
    /\ UNCHANGED <<handler, query, env, tries, got, res>>

\* binance-alt-summary, first version: const ts = Date.now()
SignV1Start ==
    /\ handler = V1 /\ pc = "start"
    /\ \E d \in 0..1 :
         /\ CanRead(d)
         /\ local' = [local EXCEPT !.now = @ + d, !.reads = @ + 1,
                                   !.ts = local.now + d,
                                   !.tsRead = local.reads + 1]
    /\ pc' = "chain"
    /\ UNCHANGED <<handler, query, env, calls, tries, got, res>>

\* the next signed request of the first version, all with String(ts); the
\* fallback chain follows a failed getUserAsset
SignV1Request ==
    /\ handler = V1 /\ pc = "chain"
    /\ \E d \in 0..1, ok \in BOOLEAN :
         /\ CanRead(d)
         /\ local' = [local EXCEPT !.now = @ + d, !.step = @ + 1]
         /\ calls' = Append(calls,
                       BinanceUrl(V1Chain[local.step].endpoint,
                                  ChainQs(V1Chain[local.step], local.ts),
                                  local.tsRead))
         /\ pc' = IF (local.step = 2 /\ ok) \/ local.step = Len(V1Chain)
                    THEN "done" ELSE pc
    /\ UNCHANGED <<handler, query, env, tries, got, res>>

\* what the futures chain of the second version notes of each step
TimeStep(ok, serverTs, clock, drift) ==
    [kind |-> "time", ok |-> ok, serverTs |-> serverTs, clock |-> clock,
     drift |-> drift]

PositionsStep(kind, ok, drift) ==
    [kind |-> kind, ok |-> ok, serverTs |-> 0, clock |-> 0, drift |-> drift]

\* getServerTimeFapi(): serverTime when the request is ok and carries a
\* number, Date.now() otherwise
getServerTimeFapi(ok, clock, skew) == IF ok THEN clock + skew ELSE clock

\* mutation: the second attempt follows the first without a new server time
AfterPositionsNoResync(at, ok) ==
    IF ok THEN "wallet"
    ELSE IF at = "positions" THEN "positionsAgain" ELSE "papi"

\* `if (!r.ok) { serverTs = ...; drift = ...; r = await fetchPositions(); }`
\* and then `if (!r.ok) { ... PAPI ... }`
AfterPositions(at, ok) ==
    IF ok THEN "wallet"
    ELSE IF at = "positions" THEN "serverTimeAgain" ELSE "papi"

\* second version: localTs = Date.now(); serverTs = await
\* getServerTimeFapi(); drift = serverTs - localTs
SignV2ServerTime ==
    /\ handler = V2 /\ pc = "start"
    /\ \E d \in 0..1, e \in 0..1, skew \in ServerSkews, ok \in BOOLEAN :
         /\ CanRead(d + e)
         /\ LET localTs == local.now + d
                serverTs == getServerTimeFapi(ok, local.now + d + e, skew)
            IN /\ local' = [local EXCEPT
                              !.now = @ + d + e,
                              !.reads = @ + (IF ok THEN 1 ELSE 2),
                              !.drift = serverTs - localTs]
               /\ tries' = Append(tries, TimeStep(ok, serverTs, local.now + d + e,
                                                  serverTs - localTs))
    /\ pc' = "positions"
    /\ UNCHANGED <<handler, query, env, calls, got, res>>

\* r = await fetchPositions(), the first time and after the drift was
\* measured again
SignV2Positions ==
    /\ handler = V2 /\ pc \in {"positions", "positionsAgain"}
    /\ \E d \in 0..1, ok \in BOOLEAN :
         /\ CanRead(d)
         /\ local' = [local EXCEPT !.now = @ + d, !.reads = @ + 1]
         /\ calls' = Append(calls,
                       fetchPositions(local.now + d, local.drift,
                                      local.reads + 1))
         /\ tries' = Append(tries, PositionsStep("fapi", ok, local.drift))
         /\ got' = <<[from |-> "fapi", ok |-> ok]>>
         /\ pc' = AfterPositions(pc, ok)
    /\ UNCHANGED <<handler, query, env, res>>

\* serverTs = await getServerTimeFapi(); drift = serverTs - Date.now()
SignV2ServerTimeAgain ==
    /\ handler = V2 /\ pc = "serverTimeAgain"
    /\ \E d \in 0..1, e \in 0..1, skew \in ServerSkews, ok \in BOOLEAN :
         /\ CanRead(d + e)
         /\ LET serverTs == getServerTimeFapi(ok, local.now + d, skew)
                localTs == local.now + d + e
            IN /\ local' = [local EXCEPT
                              !.now = @ + d + e,
                              !.reads = @ + (IF ok THEN 1 ELSE 2),
                              !.drift = serverTs - localTs]
               /\ tries' = Append(tries, TimeStep(ok, serverTs, local.now + d,
                                                  serverTs - localTs))
    /\ pc' = "positionsAgain"
    /\ UNCHANGED <<handler, query, env, calls, got, res>>

\* papi/v1/um/positionRisk with timestamp String(Date.now());
\* `if (rp.ok) r = rp`
SignV2Papi ==
    /\ handler = V2 /\ pc = "papi"
    /\ \E d \in 0..1, ok \in BOOLEAN :
         /\ CanRead(d)
         /\ local' = [local EXCEPT !.now = @ + d, !.reads = @ + 1]
         /\ calls' = Append(calls,
                       BinanceUrl("papi/v1/um/positionRisk",
                                  [timestamp |-> local.now + d],
                                  local.reads + 1))
         /\ tries' = Append(tries, PositionsStep("papi", ok, 0))
         /\ got' = IF ok THEN <<[from |-> "papi", ok |-> TRUE]>> ELSE got
    /\ pc' = "wallet"
    /\ UNCHANGED <<handler, query, env, res>>

\* the wallet requests of the second version, each with its own
\* const ts = Date.now(); a successful getUserAsset skips the fallback chain
SignV2Wallet ==
    /\ handler = V2 /\ pc = "wallet"
    /\ \E d \in 0..1, ok \in BOOLEAN :
         /\ CanRead(d)
         /\ local' = [local EXCEPT
                        !.now = @ + d, !.reads = @ + 1,
                        !.step = IF local.step = 1 /\ ok THEN 6 ELSE @ + 1]
         /\ calls' = Append(calls,
                       BinanceUrl(V2WalletChain[local.step].endpoint,
                                  ChainQs(V2WalletChain[local.step],
                                          local.now + d),
                                  local.reads + 1))
         /\ pc' = IF local.step = Len(V2WalletChain) THEN "done" ELSE pc
    /\ UNCHANGED <<handler, query, env, tries, got, res>>

SignNext ==
    \/ SignBybit \/ SignBitget \/ SignOkx \/ SignAccount \/ SignV1Start \/ SignV1Request
    \/ SignV2ServerTime \/ SignV2Positions \/ SignV2ServerTimeAgain
    \/ SignV2Papi \/ SignV2Wallet

SpecSign == SignInit /\ [][SignNext]_vars

(***************************************************************************)
(* Outbound calls in flight: a request is sent, and then either the        *)
(* upstream answers or, where the fetch helper arms an AbortController     *)
(* timer, the timer aborts it.  A plain fetch() has no timer.              *)
(***************************************************************************)
BTH == "bithumb-balance"

SourceList == <<"yahoo", "dunamu", "host", "erapi">>

\* the outbound calls of a handler in order, and whether the helper that
\* sends them arms an abort timer: fetchJson of usdkrw.js and fetchJSON of
\* position-summary.js do, okxFetch of position-summary.js and tryCall of
\* bithumb-balance.js call fetch directly
WaitCalls(h, q) ==
    IF h = "usdkrw" THEN SourceList
    ELSE IF h = BTH THEN <<"mode1", "mode2">>
    ELSE IF q.exchange = "bybit" THEN <<"/v5/position/list">>
    ELSE OkxEndpoints

HasAbortTimer(h, q) ==
    h = "usdkrw" \/ (h = "position-summary" /\ q.exchange = "bybit")

\* what an upstream may answer, when it answers
WaitAnswers(h, call) ==
    IF h = "usdkrw"
      THEN { r \in FetchResults(call) :
               r.status # 0 /\ r.json.raw \in {GoodRaw, RawText} }
      ELSE {[ok |-> TRUE, status |-> 200], [ok |-> FALSE, status |-> 500]}

\* what fetchJson of usdkrw.js returns from its catch when the timer aborts
Aborted ==
    [ok |-> FALSE, status |-> 0, error |-> "AbortError", json |-> JsonNull]

\* the acceptance test of each block of usdkrw
UsdkrwAccepts(source, r) ==
    CASE source = "yahoo" -> AcceptFinite(r, ToNumber(YahooRaw(r)))
      [] source = "dunamu" -> AcceptDunamu(r)
      [] OTHER -> AcceptFinite(r, ToNumber(RatesRaw(r)))

UsdkrwRate(source, r) ==
    CASE source = "yahoo" -> ToNumber(YahooRaw(r))
      [] source = "dunamu" -> ToNumber(r.json.raw)
      [] OTHER -> ToNumber(RatesRaw(r))

WaitInit ==
    /\ handler \in {"usdkrw", "position-summary", BTH}
    /\ pc = "send"
    /\ IF handler = "position-summary"
         THEN query \in [exchange : {"bybit", "okx"}]
         ELSE query = [none |-> TRUE]
    /\ env = [creds |-> TRUE]
    /\ calls = <<>>
    /\ tries = <<>>
    /\ got = <<>>
    /\ local = [timer |-> FALSE]
    /\ res = NoRes

\* the handler sends its next outbound call
WaitSend ==
    /\ handler \in {"usdkrw", "position-summary", BTH} /\ pc = "send"
    /\ calls' = Append(calls, WaitCalls(handler, query)[Len(calls) + 1])
    /\ local' = [timer |-> HasAbortTimer(handler, query)]
    /\ pc' = "wait"
    /\ UNCHANGED <<handler, query, env, tries, got, res>>

\* the handler resumes with the outcome r of its call number Len(calls)
WaitResume(r) ==
    IF handler = "usdkrw"
      THEN LET source == calls[Len(calls)] IN
           /\ tries' = Append(tries, TryEntry(source, r))
           /\ IF UsdkrwAccepts(source, r)
                THEN res' = Ok200(UsdkrwRate(source, r), source) /\ pc' = "done"
                ELSE IF Len(calls) = Len(SourceList)
                  THEN res' = AllFailed502(tries') /\ pc' = "done"
                  ELSE res' = res /\ pc' = "send"
    ELSE IF handler = BTH
      THEN /\ tries' = Append(tries, [mode |-> calls[Len(calls)], ok |-> r.ok])
           /\ IF r.ok
                THEN /\ res' = Json200([totalKRW |-> 0, mode |-> calls[Len(calls)]])
                     /\ pc' = "done"
                ELSE IF Len(calls) = 2
                  THEN /\ res' = Error500("Both strategies failed")
                       /\ pc' = "done"
                  ELSE res' = res /\ pc' = "send"
    ELSE /\ tries' = tries
         /\ IF ~r.ok
              THEN res' = Error500("API error") /\ pc' = "done"
              ELSE IF Len(calls) = Len(WaitCalls(handler, query))
                THEN /\ res' = Json200([exchange |-> query.exchange])
                     /\ pc' = "done"
                ELSE res' = res /\ pc' = "send"

\* the upstream answers the call in flight
WaitAnswer ==
    /\ handler \in {"usdkrw", "position-summary", BTH} /\ pc = "wait"
    /\ \E r \in WaitAnswers(handler, calls[Len(calls)]) : WaitResume(r)
    /\ local' = [timer |-> FALSE]
    /\ UNCHANGED <<handler, query, env, calls, got>>

\* setTimeout(() => ctrl.abort(), timeoutMs) fires: fetchJson of usdkrw.js
\* returns status 0 from its catch; fetchJSON of position-summary.js has no
\* catch, the rejection reaches the handler's catch
WaitAbort ==
    /\ handler \in {"usdkrw", "position-summary", BTH} /\ pc = "wait"
    /\ local.timer
    /\ IF handler = "usdkrw"
         THEN WaitResume(Aborted)
         ELSE /\ res' = Error500("This operation was aborted")
              /\ pc' = "done"
              /\ tries' = tries
    /\ local' = [timer |-> FALSE]
    /\ UNCHANGED <<handler, query, env, calls, got>>

WaitNext == WaitSend \/ WaitAnswer \/ WaitAbort

\* the handler's own steps and an armed timer eventually happen; nothing
\* obliges an upstream to answer
FairWait == WF_vars(WaitSend) /\ WF_vars(WaitAbort)

SpecWait == WaitInit /\ [][WaitNext]_vars /\ FairWait

(***************************************************************************)
(* api/account-summary.js, second handler (lines 70-133): every statement  *)
(* that can throw, and the catch that answers for it                       *)
(***************************************************************************)
\* mutation: the exception leaves the handler, no response is sent
AccCatchEscapes(message) == NoRes

\* catch (error) { res.status(500).json({ error: error.message }) }
AccCatch(message) == Error500(message)

\* a position without a symbol field
NoSymbol == "(undefined)"

\* what fetch + json() give for vapi/v1/account: the promise rejects
\* (transport error, abort), the body is not JSON, or the parsed value
AccPmAnswers ==
    { [kind |-> "reject", totalWalletBalance |-> 0],
      [kind |-> "nonjson", totalWalletBalance |-> 0],
      [kind |-> "null", totalWalletBalance |-> 0],
      [kind |-> "object", totalWalletBalance |-> 0],
      [kind |-> "object", totalWalletBalance |-> 1234567] }

AccPositions ==
    { FP("ARBUSDT", 200, 0, 1500), FP("SOLUSDT", -2, 0, 100002),
      FP("BTCUSDT", 1, 0, 60000000), FP("XRPUSDT", 0, 0, 500),
      FP(NoSymbol, 5, 0, 1000) }

AccFuturesAnswers ==
    { [kind |-> k, list |-> <<>>] : k \in {"reject", "nonjson", "null", "object"} }
    \cup
    { [kind |-> "array", list |-> l] :
        l \in UNION {[1..n -> AccPositions] : n \in 0..MaxPositions} }

\* the error a statement of the handler throws on the answer, "" if none
AccPmThrows(a) ==
    CASE a.kind = "reject" -> "fetch failed"
      [] a.kind = "nonjson" -> "Unexpected token < in JSON"
      [] a.kind = "null" -> "Cannot read properties of null"
      [] OTHER -> ""

AccFuturesThrows(a) ==
    CASE a.kind = "reject" -> "fetch failed"
      [] a.kind = "nonjson" -> "Unexpected token < in JSON"
      [] a.kind = "null" -> "Cannot read properties of null"
      [] a.kind = "object" -> "futuresData.forEach is not a function"
      [] OTHER -> ""

\* the callback of futuresData.forEach; once it has thrown the loop is over
AccFuturesStep(acc, pos) ==
    IF acc.thrown # "" THEN acc
    ELSE IF pos.positionAmt = 0 THEN acc
    ELSE IF pos.symbol = NoSymbol
      THEN [acc EXCEPT !.thrown = "Cannot read properties of undefined"]
    ELSE IF StartsWith(pos.symbol, "BTC") \/ StartsWith(pos.symbol, "ETH")
              \/ StartsWith(pos.symbol, "XRP")
      THEN acc
    ELSE [acc EXCEPT !.altFuturesUSD = @ + Abs(pos.positionAmt * pos.markPrice)]

AccInit ==
    /\ handler = ACC
    /\ pc = "start"
    /\ query = [none |-> TRUE]
    /\ env \in [creds : BOOLEAN]
    /\ calls = <<>>
    /\ tries = <<>>
    /\ got = <<>>
    /\ local = [totalUSD |-> 0]
    /\ res = NoRes

\* the credentials check and the request for vapi/v1/account
AccStart ==
    /\ handler = ACC /\ pc = "start"
    /\ IF ~env.creds
         THEN /\ res' = Error500("Missing API credentials")
              /\ pc' = "done"
              /\ calls' = calls
         ELSE /\ calls' = <<"vapi/v1/account">>
              /\ pc' = "pm"
              /\ res' = res
    /\ UNCHANGED <<handler, query, env, tries, got, local>>

\* pmData = await pmRes.json(), the 400, and the request for the positions
AccPm ==
    /\ handler = ACC /\ pc = "pm"
    /\ \E a \in AccPmAnswers :
         /\ got' = <<a>>
         /\ IF AccPmThrows(a) # ""
              THEN /\ res' = AccCatch(AccPmThrows(a))
                   /\ pc' = "done"
                   /\ UNCHANGED <<calls, local>>
              ELSE IF a.totalWalletBalance = 0
                THEN /\ res' = [status |-> 400,
                                body |-> [error |-> "Failed to fetch total USD value"]]
                     /\ pc' = "done"
                     /\ UNCHANGED <<calls, local>>
                ELSE /\ local' = [totalUSD |-> a.totalWalletBalance]
                     /\ calls' = Append(calls, "fapi/v2/positionRisk")
                     /\ pc' = "futures"
                     /\ res' = res
    /\ UNCHANGED <<handler, query, env, tries>>

\* futuresData = await futuresRes.json(), the forEach and the 200
AccFutures ==
    /\ handler = ACC /\ pc = "futures"
    /\ \E a \in AccFuturesAnswers :
         LET acc == ForEach(AccFuturesStep, [altFuturesUSD |-> 0, thrown |-> ""],
                            a.list, 1, Len(a.list))
             thrown == IF AccFuturesThrows(a) # "" THEN AccFuturesThrows(a)
                       ELSE acc.thrown
         IN /\ got' = <<a>>
            /\ res' = IF thrown # "" THEN AccCatch(thrown)
                      ELSE Json200([totalUSD |-> Round2(local.totalUSD),
                                    altFuturesUSD |-> Round2(acc.altFuturesUSD)])
    /\ pc' = "done"
    /\ UNCHANGED <<handler, query, env, calls, tries, local>>

AccNext == AccStart \/ AccPm \/ AccFutures

SpecAcc == AccInit /\ [][AccNext]_vars

(***************************************************************************)
(* The Bithumb balance handlers that try several signing strategies:       *)
(* api/bithumb-balance.js (mode1, mode2), part_017 (A, B, C) and           *)
(* part_016 lines 1-90 (body x order x encoding)                           *)
(***************************************************************************)
BTH17 == "part_017/bithumb-balance"

BTH16 == "part_016/bithumb-balance"

BthHandlers == {BTH, BTH17, BTH16}

\* for (bodyStr of [bodyRaw, bodyEnc]) for (order of orders) for (enc of encs)
BthCombos ==
    [k \in 1..18 |->
        [body |-> IF k <= 9 THEN "raw" ELSE "encoded",
         order |-> <<"A", "B", "C">>[(((k - 1) \div 3) % 3) + 1],
         enc |-> <<"base64", "hex", "semicolon">>[((k - 1) % 3) + 1]]]

\* the strategies of a handler in the order of its code
BthStrategies(h) ==
    IF h = BTH
      THEN << [body |-> "raw", order |-> "mode1", enc |-> "base64"],
              [body |-> "raw", order |-> "mode2", enc |-> "base64"] >>
    ELSE IF h = BTH17
      THEN << [body |-> "params", order |-> "A", enc |-> "base64"],
              [body |-> "paramsWithEndpoint", order |-> "B", enc |-> "base64"],
              [body |-> "params", order |-> "C", enc |-> "hex"] >>
    ELSE BthCombos

\* the millisecond clock at the start of an invocation
BthEpoch == 1000

\* Math.floor(Math.random() * 1000), drawn by bithumb-balance.js only
BthRandoms(h) == IF h = BTH THEN {7, 123} ELSE {0}

\* the milliseconds that pass between two reads of Date.now(); the eighteen
\* calls of part_016 are one millisecond apart
BthDelays(h) == IF h = BTH16 THEN {1} ELSE {1, 2}

\* the decimal string a followed by the decimal string b, read as an integer
Concat(a, b) ==
    IF b < 10 THEN a * 10 + b ELSE IF b < 100 THEN a * 100 + b ELSE a * 1000 + b

\* bithumb-balance.js: Date.now().toString() + Math.floor(Math.random() *
\* 1000); part_016 and part_017: Date.now().toString()
BthNonce(h, now, rnd) == IF h = BTH THEN Concat(now, rnd) ELSE now

\* the request of one strategy
BthRequest(h, k, now, rnd) ==
    [endpoint |-> "/info/balance", strategy |-> BthStrategies(h)[k],
     nonce |-> BthNonce(h, now, rnd)]

\* what a call meets: fetch rejects (or the body parses to null), the body is
\* not JSON, the status field is not "0000", or it is and data.total_krw is
\* the balance
BthAnswers(h) ==
    IF h = BTH16
      THEN { [kind |-> "reject", total_krw |-> 0], [kind |-> "api", total_krw |-> 0],
             [kind |-> "0000", total_krw |-> 1500000] }
      ELSE { [kind |-> "reject", total_krw |-> 0],
             [kind |-> "nonjson", total_krw |-> 0],
             [kind |-> "api", total_krw |-> 0], [kind |-> "0000", total_krw |-> 0],
             [kind |-> "0000", total_krw |-> 1500000] }

\* the return value of tryCall / callBithumb for a call that did not throw
tryCall(request, a) ==
    IF a.kind = "0000"
      THEN [ok |-> TRUE, mode |-> request.strategy, error |-> "",
            sent |-> request, total_krw |-> a.total_krw]
      ELSE [ok |-> FALSE, mode |-> request.strategy,
            error |-> IF a.kind = "nonjson" THEN "Non-JSON" ELSE "API",
            sent |-> request, total_krw |-> 0]

\* res.status(200).json({ totalKRW, mode, raw, debug: r.sent })
BthOk200(r) ==
    Json200([totalKRW |-> r.total_krw, mode |-> r.mode, debug |-> r.sent])

\* res.status(500).json({ error: "... strategies failed", attempts }); the
\* list is named `tries` in part_016
BthAllFailed(h, attempts) ==
    [status |-> 500,
     body |-> [error |-> IF h = BTH THEN "Both strategies failed"
                         ELSE "All strategies failed",
               attempts |-> attempts]]

BthInit ==
    /\ handler \in BthHandlers
    /\ pc = "start"
    /\ query \in [debug : BOOLEAN]
    /\ env \in [creds : BOOLEAN]
    /\ calls = <<>>
    /\ tries = <<>>
    /\ got = <<>>
    /\ local = [now |-> BthEpoch]
    /\ res = NoRes

\* the credential check, then the request of the first strategy
BthStart ==
    /\ handler \in BthHandlers /\ pc = "start"
    /\ IF ~env.creds
         THEN /\ res' = Error500("Missing Bithumb API credentials")
              /\ pc' = "done"
              /\ UNCHANGED <<calls, local>>
         ELSE \E d \in BthDelays(handler), rnd \in BthRandoms(handler) :
              /\ local' = [now |-> local.now + d]
              /\ calls' = <<BthRequest(handler, 1, local.now + d, rnd)>>
              /\ pc' = "try"
              /\ res' = res
    /\ UNCHANGED <<handler, query, env, tries, got>>

\* the call of the strategy in flight ends: an exception reaches the
\* handler's catch, an ok result is answered with the 200, a failed one is
\* noted and the next strategy is called or, after the last, the 500 is sent
BthTry ==
    /\ handler \in BthHandlers /\ pc = "try"
    /\ \E a \in BthAnswers(handler), d \in BthDelays(handler),
          rnd \in BthRandoms(handler) :
         LET r == tryCall(calls[Len(calls)], a)
         IN /\ got' = <<a>>
            /\ IF a.kind = "reject"
                 THEN /\ res' = Error500("fetch failed") /\ pc' = "done"
                      /\ UNCHANGED <<calls, tries, local>>
               ELSE IF r.ok
                 THEN /\ res' = BthOk200(r) /\ pc' = "done"
                      /\ tries' = Append(tries, r)
                      /\ UNCHANGED <<calls, local>>
               ELSE IF Len(calls) = Len(BthStrategies(handler))
                 THEN /\ res' = BthAllFailed(handler, Append(tries, r))
                      /\ pc' = "done"
                      /\ tries' = Append(tries, r)
                      /\ UNCHANGED <<calls, local>>
               ELSE /\ tries' = Append(tries, r)
                    /\ local' = [now |-> local.now + d]
                    /\ calls' = Append(calls,
                          BthRequest(handler, Len(calls) + 1, local.now + d, rnd))
                    /\ pc' = "try"
                    /\ res' = res
    /\ UNCHANGED <<handler, query, env>>

BthNext == BthStart \/ BthTry

SpecBth == BthInit /\ [][BthNext]_vars

(***************************************************************************)
(* api/position-summary.js, exchange=all (lines 342-376): the three        *)
(* summaries are started together and settle in any order                  *)
(***************************************************************************)
Pending == [status |-> "pending", value |-> [none |-> TRUE]]

Fulfilled(value) == [status |-> "fulfilled", value |-> value]

\* results.x = { error: x.reason?.message || String(x.reason) }
Rejected(message) == [status |-> "rejected", value |-> [error |-> message]]

\* agg.btcNetQty += n(v.futures.btcNetQty) ... for an entry with futures
AllAggStep(agg, v) ==
    IF "futures" \notin DOMAIN v THEN agg
    ELSE [btcNetQty |-> agg.btcNetQty + v.futures.btcNetQty,
          ethNetQty |-> agg.ethNetQty + v.futures.ethNetQty,
          altFuturesUSD |-> agg.altFuturesUSD + v.futures.altFuturesUSD]

\* mutation: the aggregate stops after the first exchange
AllAggregateFirstOnly(values) ==
    LET agg == AllAggStep([btcNetQty |-> 0, ethNetQty |-> 0, altFuturesUSD |-> 0],
                          values[1])
    IN [exchange |-> "aggregate",
        futures |-> [btcNetQty |-> agg.btcNetQty, ethNetQty |-> agg.ethNetQty,
                     altFuturesUSD |-> Round2(agg.altFuturesUSD)]]

\* results.aggregate over ["bybit", "bitget", "okx"]
AllAggregate(values) ==
    LET agg == ForEach(AllAggStep,
                       [btcNetQty |-> 0, ethNetQty |-> 0, altFuturesUSD |-> 0],
                       values, 1, Len(values))
    IN [exchange |-> "aggregate",
        futures |-> [btcNetQty |-> agg.btcNetQty, ethNetQty |-> agg.ethNetQty,
                     altFuturesUSD |-> Round2(agg.altFuturesUSD)]]

AllOut(loc) ==
    Json200([bybit |-> loc.bybit.value, bitget |-> loc.bitget.value,
             okx |-> loc.okx.value,
             aggregate |-> AllAggregate(<<loc.bybit.value, loc.bitget.value,
                                          loc.okx.value>>)])

\* --- what the exchanges answer ---
AllFail == [ok |-> FALSE, list |-> <<>>]

AllBybitAnswers ==
    {AllFail} \cup
    { [ok |-> TRUE, list |-> l] :
        l \in { <<>>, <<BP("ARBUSDT", "BUY", 2, 300000, 0)>>,
                <<BP("SOLUSDT", "SELL", 2, 200000, 0),
                  BP("BTCUSDT", "BUY", 1, 500000, 0)>> } }

AllBitgetAnswers ==
    {AllFail} \cup
    { [ok |-> TRUE, list |-> l] :
        l \in { <<>>, <<BG("ARBUSDT", "LONG", 2, 300000, 0, 0, 0, 0)>>,
                <<BG("BTCUSDT", "LONG", 1, 500000, 0, 0, 0, 0),
                  BG("LINKUSDT", "LONG", 1, 0, 0, 120000, 0, 0)>> } }

AllOkxAnswers ==
    {AllFail} \cup
    { [ok |-> TRUE, list |-> l] :
        l \in { <<OP("ARB-USDT-SWAP", "LONG", 3, TRUE, 300000, 0)>>,
                <<OP("ETH-USDT-SWAP", "SHORT", 1, TRUE, 400000, 0),
                  OP("XRP-USDT-SWAP", "LONG", 1, TRUE, 99995, 0)>> } }

AllOkxInstruments ==
    { [ok |-> FALSE, instMap |-> [id \in OkxIds |-> 0]],
      [ok |-> TRUE, instMap |-> [id \in OkxIds |-> 10]] }

\* --- the handler ---
AllInit ==
    /\ handler = "position-summary"
    /\ pc = "start"
    /\ query = [exchange |-> "all"]
    /\ env \in [missing : {"none", "bybit", "bitget", "okx"}]
    /\ calls = <<>>
    /\ tries = <<>>
    /\ got = <<>>
    /\ local = NoLocal
    /\ res = NoRes

\* Promise.allSettled resolves once none of the three is pending
AllFinish(loc) ==
    IF \A k \in {"bybit", "bitget", "okx"} : loc[k].status # "pending"
      THEN pc' = "done" /\ res' = AllOut(loc)
      ELSE pc' = "wait" /\ res' = res

\* the three summaries are called: each checks its credentials and sends
\* its first request
AllStart ==
    /\ handler = "position-summary" /\ pc = "start" /\ query.exchange = "all"
    /\ local' = [bybit |-> IF env.missing = "bybit"
                             THEN Rejected("Missing Bybit API credentials")
                             ELSE Pending,
                 bitget |-> IF env.missing = "bitget"
                              THEN Rejected("Missing Bitget API credentials")
                              ELSE Pending,
                 okx |-> IF env.missing = "okx"
                           THEN Rejected("Missing OKX API credentials")
                           ELSE Pending,
                 okxPositions |-> <<>>, okxStep |-> "positions"]
    /\ calls' = SelectSeq(<<"bybit", "bitget", "okx">>,
                          LAMBDA k : k # env.missing)
    /\ pc' = "wait"
    /\ UNCHANGED <<handler, query, env, tries, got, res>>

\* getBybitSummary settles
AllBybit ==
    /\ handler = "position-summary" /\ pc = "wait" /\ query.exchange = "all"
    /\ local.bybit.status = "pending"
    /\ \E r \in AllBybitAnswers :
         LET loc == [local EXCEPT !.bybit =
                       IF ~r.ok THEN Rejected("Bybit API Error (positions)")
                       ELSE Fulfilled(FuturesOf("bybit",
                                        BybitLoop(r.list, Len(r.list))))]
         IN /\ local' = loc
            /\ tries' = Append(tries, [exchange |-> "bybit", r |-> r])
            /\ AllFinish(loc)
    /\ got' = Append(got, "bybit")
    /\ UNCHANGED <<handler, query, env, calls>>

\* getBitgetSummary settles
AllBitget ==
    /\ handler = "position-summary" /\ pc = "wait" /\ query.exchange = "all"
    /\ local.bitget.status = "pending"
    /\ \E r \in AllBitgetAnswers :
         LET loc == [local EXCEPT !.bitget =
                       IF ~r.ok THEN Rejected("Bitget API Error (positions)")
                       ELSE Fulfilled(FuturesOf("bitget",
                                        BitgetLoop(r.list, Len(r.list))))]
         IN /\ local' = loc
            /\ tries' = Append(tries, [exchange |-> "bitget", r |-> r])
            /\ AllFinish(loc)
    /\ got' = Append(got, "bitget")
    /\ UNCHANGED <<handler, query, env, calls>>

\* getOkxSummary resumes with the positions; a failed okxFetch rejects it
AllOkxPositions ==
    /\ handler = "position-summary" /\ pc = "wait" /\ query.exchange = "all"
    /\ local.okx.status = "pending" /\ local.okxStep = "positions"
    /\ \E r \in AllOkxAnswers :
         LET loc == IF ~r.ok
                      THEN [local EXCEPT !.okx = Rejected("OKX API error")]
                      ELSE [local EXCEPT !.okxPositions = r.list,
                                         !.okxStep = "instruments"]
         IN /\ local' = loc
            /\ got' = IF r.ok THEN got ELSE Append(got, "okx")
            /\ calls' = IF r.ok THEN Append(calls, "okx instruments") ELSE calls
            /\ AllFinish(loc)
    /\ UNCHANGED <<handler, query, env, tries>>

\* getOkxSummary settles after the instruments
AllOkxSummary ==
    /\ handler = "position-summary" /\ pc = "wait" /\ query.exchange = "all"
    /\ local.okx.status = "pending" /\ local.okxStep = "instruments"
    /\ \E r \in AllOkxInstruments :
         LET loc == [local EXCEPT !.okx =
                       IF ~r.ok THEN Rejected("OKX API error")
                       ELSE Fulfilled(FuturesOf("okx",
                              OkxLoop(r.instMap, local.okxPositions,
                                      Len(local.okxPositions))))]
         IN /\ local' = loc
            /\ tries' = Append(tries, [exchange |-> "okx",
                                       r |-> [ok |-> r.ok,
                                              list |-> local.okxPositions]])
            /\ AllFinish(loc)
    /\ got' = Append(got, "okx")
    /\ UNCHANGED <<handler, query, env, calls>>

AllNext ==
    AllStart \/ AllBybit \/ AllBitget \/ AllOkxPositions \/ AllOkxSummary

SpecAll == AllInit /\ [][AllNext]_vars

(***************************************************************************)
(* Handlers with account selection: account-summary (part_001 lines 4-76), *)
(* binance-btc-summary (part_008, part_010 lines 14-172) and               *)
(* binance-eth-summary (part_005 lines 26-196)                             *)
(***************************************************************************)
ACCT1 == "part_001/account-summary"
BTC8 == "part_008/binance-btc-summary"
BTC10 == "part_010/binance-btc-summary"
ETH5 == "part_005/binance-eth-summary"

AcctHandlers == {ACCT1, BTC8, BTC10, ETH5}

\* process.env: a variable that is not set reads as the empty string here
AcctEnvs ==
    [BINANCE_API_KEY : {"", "key-1"}, BINANCE_SECRET_KEY : {"", "secret-1"},
     BINANCE2_API_KEY : {"", "key-2"}, BINANCE2_SECRET_KEY : {"", "secret-2"}]

\* req.query.acct
AcctQueries == [acct : {NoSymbol, "1", "2", "02"}]

\* mutation: an unset pair is replaced by the other account's pair
AcctCredsFallsBack(q, e) ==
    LET useAcct2 == q.acct = "2"
        two == [useAcct2 |-> useAcct2, apiKey |-> e.BINANCE2_API_KEY,
                secretKey |-> e.BINANCE2_SECRET_KEY]
        one == [useAcct2 |-> useAcct2, apiKey |-> e.BINANCE_API_KEY,
                secretKey |-> e.BINANCE_SECRET_KEY]
        sel == IF useAcct2 THEN two ELSE one
        alt == IF useAcct2 THEN one ELSE two
    IN IF sel.apiKey = "" \/ sel.secretKey = "" THEN alt ELSE sel

\* const useAcct2 = (req.query?.acct === "2"); apiKey, secretKey
AcctCreds(q, e) ==
    LET useAcct2 == q.acct = "2"
    IN [useAcct2 |-> useAcct2,
        apiKey |-> IF useAcct2 THEN e.BINANCE2_API_KEY ELSE e.BINANCE_API_KEY,
        secretKey |-> IF useAcct2 THEN e.BINANCE2_SECRET_KEY
                      ELSE e.BINANCE_SECRET_KEY]

\* a request signed with `sign` and sent with the X-MBX-APIKEY header
AcctSigned(endpoint, c) ==
    [endpoint |-> endpoint, signed |-> TRUE, header |-> c.apiKey,
     hmacKey |-> c.secretKey]

AcctPublic(endpoint) ==
    [endpoint |-> endpoint, signed |-> FALSE, header |-> "", hmacKey |-> ""]

\* the wallet and earn endpoints of the btc/eth summaries, in call order
AcctWalletChain ==
    << "/sapi/v3/asset/getUserAsset", "/sapi/v1/asset/getFundingAsset",
       "/sapi/v1/margin/account", "/sapi/v1/simple-earn/flexible/position",
       "/sapi/v1/simple-earn/locked/position", "/sapi/v1/lending/union/account",
       "/sapi/v1/lending/daily/token/position",
       "/sapi/v1/lending/project/position/list" >>

\* an upstream answer: the fetch rejects, the body is unusable, or the
\* parsing finds this quantity (in 1e-8 coin)
AcctAnswers ==
    { [kind |-> "thrown", qty |-> 0], [kind |-> "unusable", qty |-> 0],
      [kind |-> "usable", qty |-> 1] }

AcctAccount(c) == IF c.useAcct2 THEN "acct2" ELSE "acct1"

AcctMissing(h) ==
    IF h = ACCT1 THEN Error500("Missing API credentials")
    ELSE Error500("Missing Binance API credentials")

AcctInit ==
    /\ handler \in AcctHandlers
    /\ pc = "start"
    /\ query \in AcctQueries
    /\ env \in AcctEnvs
    /\ calls = <<>>
    /\ tries = <<>>
    /\ got = <<>>
    /\ local = NoLocal
    /\ res = NoRes

\* credentials are selected and checked; the first request is sent
AcctStart ==
    /\ handler \in AcctHandlers /\ pc = "start"
    /\ LET c == AcctCreds(query, env)
       IN IF c.apiKey = "" \/ c.secretKey = ""
            THEN /\ res' = AcctMissing(handler)
                 /\ pc' = "done"
                 /\ UNCHANGED <<calls, local>>
            ELSE /\ local' = [creds |-> c, total |-> 0, pos |-> 0]
                 /\ calls' = <<IF handler = ACCT1
                                 THEN AcctPublic("/api/v3/ticker/price")
                                 ELSE AcctSigned(AcctWalletChain[1], c)>>
                 /\ pc' = IF handler = ACCT1 THEN "price" ELSE "wallets"
                 /\ res' = res
    /\ UNCHANGED <<handler, query, env, tries, got>>

\* part_001: the BTCUSDT price, then the signed wallet balance request
AcctPrice ==
    /\ handler = ACCT1 /\ pc = "price"
    /\ \E a \in AcctAnswers :
         /\ got' = <<a>>
         /\ IF a.kind = "thrown"
              THEN res' = Error500("fetch failed") /\ pc' = "done"
                   /\ calls' = calls
            ELSE IF a.kind = "unusable"
              THEN res' = [status |-> 502,
                           body |-> [error |-> "Failed to fetch BTCUSDT price"]]
                   /\ pc' = "done" /\ calls' = calls
            ELSE /\ res' = res /\ pc' = "balance"
                 /\ calls' = Append(calls,
                        AcctSigned("/sapi/v1/asset/wallet/balance", local.creds))
    /\ UNCHANGED <<handler, query, env, tries, local>>

\* part_001: the wallet balances are summed and reported
AcctBalance ==
    /\ handler = ACCT1 /\ pc = "balance"
    /\ \E a \in AcctAnswers :
         /\ got' = <<a>>
         /\ res' = IF a.kind = "thrown" THEN Error500("fetch failed")
                   ELSE IF a.kind = "unusable"
                     THEN [status |-> 502,
                           body |-> [error |-> "Unexpected response format"]]
                   ELSE Json200([totalBTC |-> a.qty,
                                 account |-> AcctAccount(local.creds)])
    /\ pc' = "done"
    /\ UNCHANGED <<handler, query, env, calls, tries, local>>

\* btc/eth summaries: one wallet or earn endpoint answers, the next request
\* (the last one being PAPI positionRisk) is sent
AcctWallet ==
    /\ handler \in {BTC8, BTC10, ETH5} /\ pc = "wallets"
    /\ Len(calls) <= Len(AcctWalletChain)
    /\ \E a \in AcctAnswers :
         /\ got' = <<a>>
         /\ IF a.kind = "thrown"
              THEN res' = Error500("fetch failed") /\ pc' = "done"
                   /\ UNCHANGED <<calls, local>>
              ELSE /\ local' = [local EXCEPT !.total = @ + a.qty]
                   /\ calls' = Append(calls,
                        AcctSigned(IF Len(calls) < Len(AcctWalletChain)
                                     THEN AcctWalletChain[Len(calls) + 1]
                                     ELSE "/papi/v1/um/positionRisk",
                                   local.creds))
                   /\ pc' = IF Len(calls) < Len(AcctWalletChain)
                              THEN "wallets" ELSE "papi"
                   /\ res' = res
    /\ UNCHANGED <<handler, query, env, tries>>

AcctOut(loc) ==
    Json200([account |-> AcctAccount(loc.creds), walletsTotal |-> loc.total,
             usdM |-> loc.pos])

\* PAPI positionRisk answers; FAPI is asked when it gave no list
AcctPapi ==
    /\ handler \in {BTC8, BTC10, ETH5} /\ pc = "papi"
    /\ \E a \in AcctAnswers :
         /\ got' = <<a>>
         /\ IF a.kind = "thrown"
              THEN res' = Error500("fetch failed") /\ pc' = "done"
                   /\ UNCHANGED <<calls, local>>
            ELSE IF a.kind = "unusable"
              THEN /\ calls' = Append(calls,
                        AcctSigned("/fapi/v2/positionRisk", local.creds))
                   /\ pc' = "fapi"
                   /\ UNCHANGED <<res, local>>
            ELSE /\ local' = [local EXCEPT !.pos = a.qty]
                 /\ res' = AcctOut(local')
                 /\ pc' = "done"
                 /\ calls' = calls
    /\ UNCHANGED <<handler, query, env, tries>>

AcctFapi ==
    /\ handler \in {BTC8, BTC10, ETH5} /\ pc = "fapi"
    /\ \E a \in AcctAnswers :
         /\ got' = <<a>>
         /\ IF a.kind = "thrown"
              THEN res' = Error500("fetch failed") /\ local' = local
              ELSE /\ local' = [local EXCEPT !.pos = a.qty]
                   /\ res' = AcctOut(local')
    /\ pc' = "done"
    /\ UNCHANGED <<handler, query, env, calls, tries>>

AcctNext ==
    AcctStart \/ AcctPrice \/ AcctBalance \/ AcctWallet \/ AcctPapi \/ AcctFapi

SpecAcct == AcctInit /\ [][AcctNext]_vars

(***************************************************************************)
(* Any of the handlers above serves the invocation.                        *)
(***************************************************************************)
Init ==
    \/ UsdkrwInit \/ PosInit \/ BinanceInit \/ P4Init \/ SolInit
    \/ OkxBalInit \/ AccInit \/ BthInit

Next ==
    \/ UsdkrwNext \/ PosNext \/ BinanceNext \/ P4Next \/ SolNext
    \/ OkxBalNext \/ AccNext \/ BthNext

Spec == Init /\ [][Next]_vars

(***************************************************************************)
(* Claims about usdkrw                                                     *)
(***************************************************************************)
SourceOrder == <<"yahoo", "dunamu", "host", "erapi">>

\* the candidate rate a source's answer carries, read the way that source's
\* block reads it
CandidateRate(source, r) ==
    CASE source = "yahoo" -> ToNumber(YahooRaw(r))
      [] source = "dunamu" ->
           IF r.json.shape = "array" THEN ToNumber(r.json.raw) ELSE NaN
      [] OTHER -> ToNumber(RatesRaw(r))

\* an ok response carrying a finite rate strictly greater than zero
ValidAnswer(source, r) ==
    r.ok /\ IsFinite(CandidateRate(source, r)) /\ CandidateRate(source, r).v > 0

\* a 2xx answer whose rate is non-numeric, zero or negative, or whose body
\* is not JSON
SoftFailure(source, r) ==
    /\ r.ok
    /\ LET c == CandidateRate(source, r) IN c.k = "nan" \/ (c.k = "num" /\ c.v <= 0)

\* C1: the sources are requested strictly in the order yahoo, dunamu, host,
\* erapi, each at most once, and a source that answers ok with a valid
\* positive rate is the last one requested: the response is then 200 with
\* that source's rate and name.
C1_OrderedFirstValidWins ==
    /\ Len(calls) <= 4
    /\ calls = SubSeq(SourceOrder, 1, Len(calls))
    /\ Len(got) = Len(calls)
    /\ \A i \in 1..Len(got) :
         ValidAnswer(calls[i], got[i]) =>
           /\ i = Len(calls)
           /\ res = Ok200(CandidateRate(calls[i], got[i]), calls[i])

\* C1 witness: yahoo answered with a valid rate and the handler has responded
\* after that single request.
C1_Witness ==
    /\ pc = "done" /\ calls = <<"yahoo">>
    /\ ValidAnswer("yahoo", got[1]) /\ res.status = 200

\* C2: once the handler is done, the response is 502 exactly when all four
\* sources were attempted and every one failed, and then it carries the
\* error 'All sources failed' and one tries entry per source, in attempt
\* order, with that attempt's status, ok and error.
C2_AllFailedIff502 ==
    pc = "done" =>
      LET allFailed ==
            /\ Len(got) = 4
            /\ \A i \in 1..4 : ~ValidAnswer(calls[i], got[i])
      IN /\ (res.status = 502) <=> allFailed
         /\ allFailed =>
              /\ res.body.error = "All sources failed"
              /\ Len(res.body.tries) = 4
              /\ \A i \in 1..4 :
                   res.body.tries[i] = TryEntry(SourceOrder[i], got[i])

\* C2 witness: four failed attempts of different kinds ended in the 502.
C2_Witness ==
    /\ pc = "done" /\ res.status = 502 /\ Len(got) = 4
    /\ got[1].status = 0 /\ got[2].status = 500
    /\ got[3].ok /\ got[4].ok

\* C3: a 2xx answer with a non-numeric, zero or negative rate, or with a
\* body that is not JSON, sends no response by itself: the next source in
\* order is tried, and a later valid source still yields the 200 of that
\* source.
C3_SoftFailureContinues ==
    \A i \in 1..Len(got) :
      (SoftFailure(calls[i], got[i]) /\ i < 4) =>
        /\ IF i = Len(got)
             THEN res = NoRes /\ pc = SourceOrder[i + 1]
             ELSE calls[i + 1] = SourceOrder[i + 1]
        /\ \A j \in (i + 1)..Len(got) :
             ValidAnswer(calls[j], got[j]) =>
               res = Ok200(CandidateRate(calls[j], got[j]), calls[j])

\* C3 witness: the scenario A -> HTTP 500, B -> rate -5, C -> rate 1350.25
\* ended with {rate: 1350.25, source: C}.
C3_Witness ==
    /\ pc = "done" /\ Len(got) = 3
    /\ got[1].status = 500
    /\ got[2].ok /\ got[2].json = [shape |-> "array", raw |-> RawNum(-500)]
    /\ got[3].ok /\ got[3].json = [shape |-> "rates", raw |-> GoodRaw]
    /\ res = Ok200(Num(135025), "host")

\* C4: every 200 response carries a rate that is a finite number strictly
\* greater than zero, whichever source supplied it.
C4_RateFinitePositive ==
    res.status = 200 => IsFinite(res.body.rate) /\ res.body.rate.v > 0

(***************************************************************************)
(* Claims about position-summary                                           *)
(***************************************************************************)
\* the summary was returned for the exchange asked for
PosOk == handler = "position-summary" /\ res.status = 200

\* the position list the summary was computed from
PosList == got[1].list

\* the USD exposure the code resolved for a position, and whether the loop
\* counts the position among the ALT positions
PosUsd(p) ==
    CASE query.exchange = "bybit" -> BybitUsd(p)
      [] query.exchange = "bitget" -> BitgetUsd(p)
      [] OTHER -> OkxUsd(got[2].instMap, p)

PosIsAlt(p) ==
    CASE query.exchange = "bybit" ->
           /\ p.size # 0
           /\ ~StartsWith(p.symbol, "BTC") /\ ~StartsWith(p.symbol, "ETH")
      [] query.exchange = "bitget" ->
           /\ p.total # 0
           /\ ~StartsWith(p.symbol, "BTC") /\ ~Includes(p.symbol, "BTCUSDT")
           /\ ~StartsWith(p.symbol, "ETH") /\ ~Includes(p.symbol, "ETHUSDT")
      [] OTHER ->
           /\ p.pos # 0 /\ EndsWith(p.instId, "-SWAP")
           /\ ~StartsWith(p.instId, "BTC-") /\ ~StartsWith(p.instId, "ETH-")

PosIncluded(p) == PosIsAlt(p) /\ Abs(PosUsd(p)) >= MinUsdMills

\* a position is short when the exchange reports it so: side SELL (Bybit),
\* holdSide SHORT (Bitget), posSide SHORT or a negative net pos (OKX)
PosIsShort(p) ==
    CASE query.exchange = "bybit" -> p.side = "SELL"
      [] query.exchange = "bitget" -> p.holdSide = "SHORT"
      [] OTHER -> p.posSide = "SHORT" \/ (p.posSide = "NET" /\ p.pos < 0)

\* the exposure of a position with a long positive and a short negative
SignedExposure(p) == IF PosIsShort(p) THEN -Abs(PosUsd(p)) ELSE Abs(PosUsd(p))

NetExposure(list, n) ==
    ForEach(LAMBDA sum, p :
              sum + (IF PosIncluded(p) THEN SignedExposure(p) ELSE 0),
            0, list, 1, n)

\* C5: for each exchange the reported altFuturesUSD is the signed sum of the
\* exposures of the included non-BTC/ETH positions, a long counted positive
\* and a short counted negative, and every altFuturesTop entry carries the
\* signed exposure of an included position.
C5_SignedNetExposure ==
    PosOk =>
      /\ res.body.futures.altFuturesUSD
           = Round2(NetExposure(PosList, Len(PosList)))
      /\ \A i \in 1..Len(res.body.futures.altFuturesTop) :
           \E n \in 1..Len(PosList) :
             /\ PosIncluded(PosList[n])
             /\ res.body.futures.altFuturesTop[i].usd
                  = Round2(SignedExposure(PosList[n]))

\* the same statement for Bybit and Bitget alone
C5_SignedNetExposureBybitBitget ==
    query.exchange \in {"bybit", "bitget"} => C5_SignedNetExposure

(***************************************************************************)
(* Claims about binance-alt-summary (both versions of the file)            *)
(***************************************************************************)
\* the handler answered 200 with the aggregates
BinOk == handler \in {V1, V2} /\ pc = "done" /\ res.status = 200

\* the positions the futures block iterated: the answer held in `pos` when it
\* is ok and an array
BinPositions ==
    IF got # <<>> /\ got[1].ok /\ got[1].isArray THEN got[1].list ELSE <<>>

\* the signed USD exposure of a position as Binance reports it: notional,
\* else positionAmt * markPrice, else (version 2) positionAmt * ticker price
BinExposure(p) ==
    IF p.notional # 0 THEN p.notional
    ELSE IF p.markPrice # 0 THEN p.positionAmt * p.markPrice
    ELSE IF handler = V2 THEN p.positionAmt * MapGet(got[2], p.symbol)
    ELSE 0

\* the exposure with the sign of the position: long positive, short negative
BinSigned(p) ==
    IF p.positionAmt < 0 THEN -Abs(BinExposure(p)) ELSE Abs(BinExposure(p))

\* a USDT-margined position outside the futures exclusion of its version
BinIsAlt(p) ==
    /\ p.positionAmt # 0 /\ EndsWith(p.symbol, "USDT")
    /\ baseAssetFromSymbol(p.symbol)
         \notin (IF handler = V1 THEN EXCLUDED ELSE FUTURES_EXCLUDED_BASE)

BinNetTotal ==
    ForEach(LAMBDA sum, p :
              sum + (IF BinIsAlt(p) /\ Abs(BinExposure(p)) >= MIN_USD
                       THEN BinSigned(p) ELSE 0),
            0, BinPositions, 1, Len(BinPositions))

BinGrossTotal ==
    ForEach(LAMBDA sum, p :
              sum + (IF BinIsAlt(p) /\ Abs(BinExposure(p)) >= MIN_USD
                       THEN Abs(BinExposure(p)) ELSE 0),
            0, BinPositions, 1, Len(BinPositions))

C9_NoExcludedAsset ==
    BinOk =>
      /\ \A i \in 1..Len(res.body.altWalletTop) :
           res.body.altWalletTop[i].asset \notin res.body.excluded
      /\ \A i \in 1..Len(res.body.altFuturesTop) :
           res.body.altFuturesTop[i].base \notin res.body.excluded

\* the same statement for version 1 alone
C9_NoExcludedAssetV1 == handler = V1 => C9_NoExcludedAsset

(***************************************************************************)
(* Claims about part_004                                                   *)
(***************************************************************************)
\* the 200 of part_004 after getAltFuturesUSD iterated a position list
P4FuturesOk ==
    /\ handler = P4 /\ pc = "done" /\ res.status = 200
    /\ got[1].ok /\ got[1].isArray

\* the symbol with its quote suffix removed: ARBUSDT -> ARB, BTCUSDT -> BTC
QuoteRemoved(symbol) ==
    IF EndsWith(symbol, "USDT") THEN SubSeq(symbol, 1, Len(symbol) - 4)
    ELSE symbol

\* a position that may contribute: not on BTC or ETH, at or above MIN_USD
P4MayContribute(p) ==
    /\ p.positionAmt # 0
    /\ QuoteRemoved(p.symbol) \notin P4_EXCLUDED
    /\ Abs(p.positionAmt * p.markPrice) >= P4_MIN_USD

P4AltTotal ==
    ForEach(LAMBDA sum, p :
              sum + (IF P4MayContribute(p)
                       THEN Abs(p.positionAmt * p.markPrice) ELSE 0),
            0, got[1].list, 1, Len(got[1].list))

\* C10: a position on BTCUSDT or ETHUSDT contributes neither to the futures
\* total nor to the items: every item is the quote-removed base of a listed
\* position outside {BTC, ETH}, and the total is made of those positions.
C10_BtcEthNeverContribute ==
    P4FuturesOk =>
      /\ \A i \in 1..Len(res.body.altFuturesTop) :
           \E n \in 1..Len(got[1].list) :
             /\ P4MayContribute(got[1].list[n])
             /\ res.body.altFuturesTop[i].asset
                  = QuoteRemoved(got[1].list[n].symbol)
      /\ res.body.altFuturesUSD
           <= P4AltTotal + 5 * (Len(res.body.altFuturesTop) + 1)

(***************************************************************************)
(* Claims about every aggregation                                          *)
(***************************************************************************)
Done200 == pc = "done" /\ res.status = 200

Aggregate(total, top) == [total |-> total, top |-> top]

\* the (total, top list) pairs of the response
Aggregations ==
    IF ~Done200 THEN {}
    ELSE IF handler = "position-summary"
      THEN {Aggregate(res.body.futures.altFuturesUSD,
                      res.body.futures.altFuturesTop)}
    ELSE IF handler \in {V1, V2, P4}
      THEN {Aggregate(res.body.altWalletUSD, res.body.altWalletTop),
            Aggregate(res.body.altFuturesUSD, res.body.altFuturesTop)}
    ELSE IF handler = SOL
      THEN {Aggregate(res.body.totalUSD, res.body.top)}
    ELSE {}

\* rounding tolerance: half a cent for the total and for every top entry
Tolerance(top) == 5 * (Len(top) + 1)

TopWithinTotal(a) == SumUsd(a.top, Len(a.top)) <= a.total + Tolerance(a.top)

\* C7 as stated: in every aggregation the sum of the top list's usd values
\* does not exceed the reported total by more than rounding tolerance.
C7_TopSumWithinTotal == \A a \in Aggregations : TopWithinTotal(a)

\* how many positions position-summary included, and whether one is short
PosIncludedCount ==
    Cardinality({n \in 1..Len(PosList) : PosIncluded(PosList[n])})

PosIncludesShort ==
    \E n \in 1..Len(PosList) :
      PosIncluded(PosList[n]) /\ PosUsd(PosList[n]) < 0

\* C7 amended: the bound holds for the wallet totals and for the gross
\* futures totals (all values positive) with any number of entries; for the
\* signed net total of position-summary it holds when at most 25 positions
\* are included or none of the included positions is short.
C7_TopSumWithinTotalUnlessShortCut ==
    \A a \in Aggregations :
      (handler = "position-summary"
         => PosIncludedCount <= TopCap \/ ~PosIncludesShort)
      => TopWithinTotal(a)

\* C7 witness: a response whose top list is full and leaves entries out, the
\* total being larger than the sum of the list.
C7_Witness ==
    \E a \in Aggregations :
      /\ Len(a.top) = TopCap
      /\ a.total > SumUsd(a.top, Len(a.top)) + Tolerance(a.top)

\* the threshold test on the rounded usd of the binance and position-summary
\* top lists
BinPosTopAtThreshold ==
    /\ handler \in {V1, V2, P4} /\ Done200 =>
         \A a \in Aggregations : \A i \in 1..Len(a.top) :
           a.top[i].usd >= MIN_USD
    /\ PosOk =>
         \A i \in 1..Len(res.body.futures.altFuturesTop) :
           Abs(res.body.futures.altFuturesTop[i].usd) >= MinUsdMills

SolOk == handler = SOL /\ Done200

\* C8 as stated: every top entry is at or above the threshold; in
\* solana-balance every top entry has usd >= minUSD and usd > 0.
C8_TopAtOrAboveThreshold ==
    /\ BinPosTopAtThreshold
    /\ SolOk =>
         \A i \in 1..Len(res.body.top) :
           /\ res.body.top[i].usd >= res.body.minUSD
           /\ res.body.top[i].usd > 0

\* C8 amended: in solana-balance the test is made on the value before it is
\* rounded to cents: every top entry is the rounding of a token value that is
\* >= minUSD and > 0, so the reported usd is >= minUSD rounded to cents and
\* >= 0.
C8_TopAdmittedAtThreshold ==
    /\ BinPosTopAtThreshold
    /\ SolOk =>
         \A i \in 1..Len(res.body.top) :
           /\ \E n \in 1..Len(got[1].items) :
                /\ res.body.top[i].symbol = got[1].items[n].symbol
                /\ res.body.top[i].usd = Round2(SolUsd(got[1].items[n]))
                /\ SolUsd(got[1].items[n]) >= res.body.minUSD
                /\ SolUsd(got[1].items[n]) > 0
           /\ res.body.top[i].usd >= Round2(res.body.minUSD)
           /\ res.body.top[i].usd >= 0

\* C8 witness: a solana-balance 200 with an admitted token whose reported usd
\* is below minUSD after rounding.
C8_Witness ==
    /\ SolOk
    /\ \E i \in 1..Len(res.body.top) : res.body.top[i].usd < res.body.minUSD

(***************************************************************************)
(* Claims about the price failures of binance-alt-summary                  *)
(***************************************************************************)
\* the ticker answer is unusable: request not ok or body not an array
TickerUnusable(r) == ~r.ok \/ ~r.isArray

\* what a getUserAsset entry is worth when a price is known for its asset
PricedValue(it) ==
    IF it.asset = "" \/ it.asset \in EXCLUDED THEN 0
    ELSE IF PriceOf(local, it.asset) = 0 THEN 0
    ELSE IF (it.free + it.locked) * PriceOf(local, it.asset) >= MIN_USD
      THEN (it.free + it.locked) * PriceOf(local, it.asset)
    ELSE 0

\* a held asset for which the table has neither a USDT nor a USDC price
Unpriced(it) ==
    /\ it.asset # "" /\ it.asset \notin EXCLUDED
    /\ it.free + it.locked # 0 /\ PriceOf(local, it.asset) = 0

PricedTotal ==
    ForEach(LAMBDA sum, it : sum + PricedValue(it), 0,
            local.userAsset, 1, Len(local.userAsset))

\* C11: an unusable ticker answer ends the invocation with a 502 that has no
\* aggregate field, and no signed request follows it; with a usable table, a
\* held asset without a price is left out of altWalletTop and altWalletUSD
\* while the priced assets are counted, and the response is 200.
C11_PriceFailuresAsymmetric ==
    handler \in {V1, V2} =>
      /\ Len(calls) = 1 =>
           (TickerUnusable(got[1]) <=> (pc = "done" /\ res.status = 502))
      /\ res.status = 502 =>
           /\ calls = <<"api/v3/ticker/price">> /\ TickerUnusable(got[1])
           /\ DOMAIN res.body = {"error"}
      /\ Len(calls) > 1 => "priceUSDT" \in DOMAIN local
      /\ BinOk /\ local.usedPath = "getUserAsset" =>
           /\ \A n \in 1..Len(local.userAsset) :
                Unpriced(local.userAsset[n]) =>
                  \A i \in 1..Len(res.body.altWalletTop) :
                    res.body.altWalletTop[i].asset # local.userAsset[n].asset
           /\ IF handler = V1
                THEN res.body.altWalletUSD = Round2(PricedTotal)
                ELSE res.body.altWalletUSD >= Round2(PricedTotal)

\* C11 witness: a 200 computed from a getUserAsset answer that holds an
\* asset without a price next to priced assets that were counted.
C11_Witness ==
    /\ BinOk /\ local.usedPath = "getUserAsset"
    /\ \E n \in 1..Len(local.userAsset) : Unpriced(local.userAsset[n])
    /\ res.body.altWalletUSD > 0 /\ Len(res.body.altWalletTop) > 0

\* C11 second case reached: the 502 after an unusable ticker answer
C11_TickerFailed502 ==
    handler \in {V1, V2} /\ res.status = 502 /\ TickerUnusable(got[1])

(***************************************************************************)
(* Claims about a wallet aggregation whose price source is unavailable     *)
(***************************************************************************)
\* getBtcUsdt returned 0: none of its three sources gave a price
P4NoPriceSource ==
    /\ handler = P4 /\ pc = "done" /\ env.creds
    /\ local.wallet.reason = "no_btcusdt_price"

\* C12: when the reference price a wallet aggregation converts with cannot
\* be obtained, the caller gets an error and not a successful response
\* carrying a zero or partial wallet total.
C12_NoPriceSourceIsError ==
    P4NoPriceSource => res.status # 200

\* the case of C12 with holdings that a price would have counted
C12_HeldAssetsReportedAsZero ==
    /\ P4NoPriceSource /\ res.status = 200 /\ res.body.altWalletUSD = 0
    /\ P4Wallet(60000, local.userAsset).totalUSD > 0

(***************************************************************************)
(* Claims about missing credentials                                        *)
(***************************************************************************)
\* the invocation ended and a credential of the handler was not set
EndedWithoutCredentials ==
    pc = "done" /\ "creds" \in DOMAIN env /\ ~env.creds

\* the error body names the missing credential
ReportsMissingCredentials ==
    /\ "error" \in DOMAIN res.body
    /\ \/ StartsWith(res.body.error, "Missing ")
       \/ Includes(res.body.error, "credentials")

\* C13: a credentialed handler invoked with a required credential missing
\* answers 500 with an error body that reports the missing credential and
\* sends no outbound request; the OKX balance handlers do so with and
\* without the debug flag.
C13_MissingCredentials500 ==
    EndedWithoutCredentials =>
      res.status = 500 /\ ReportsMissingCredentials /\ calls = <<>>

\* C13 holds for every modelled handler but the two OKX balance handlers
C13_MissingCredentials500ExceptOkxBalance ==
    EndedWithoutCredentials /\ handler \notin {OKXB, OKX12} =>
      res.status = 500 /\ ReportsMissingCredentials /\ calls = <<>>

\* the OKX balance handlers: only okx-balance.js without debug answers 500
C13_OkxBalanceMissingCredentials ==
    EndedWithoutCredentials /\ handler \in {OKXB, OKX12} =>
      /\ calls = <<>>
      /\ IF handler = OKXB /\ ~query.debug
           THEN res.status = 500 /\ ReportsMissingCredentials
           ELSE res.status = 200 /\ res.body.totalUSD = 0

(***************************************************************************)
(* Claims about the signed requests                                        *)
(***************************************************************************)
\* the timestamp inside the string that was signed
TimestampSigned(r) == r.signature[2].timestamp

\* C14: in every signed request the timestamp of the signed canonical
\* string is the timestamp transmitted with the request (header for Bybit
\* and OKX, query parameter for Binance), also for the drift-adjusted
\* timestamp of fetchPositions and for its retry.
C14_SignedTimestampIsTransmitted ==
    \A i \in 1..Len(calls) : TimestampSigned(calls[i]) = calls[i].timestamp

\* C14 witness: fetchPositions was retried after the drift was measured
\* again, and both requests carry a timestamp that is not the local clock's
C14_Witness ==
    /\ handler = V2 /\ pc = "wallet" /\ Len(calls) = 2 /\ local.drift # 0
    /\ calls[1].endpoint = "fapi/v2/positionRisk"
    /\ calls[2].endpoint = "fapi/v2/positionRisk"
    /\ calls[1].timestamp # calls[2].timestamp
    /\ calls[2].timestamp = local.now + local.drift

\* C15: every signed request is built fresh: no two signed requests to
\* different endpoints take their timestamp, and with it their signature,
\* from one shared clock read.
C15_SignedRequestsFresh ==
    \A i, j \in 1..Len(calls) :
      calls[i].endpoint # calls[j].endpoint => calls[i].read # calls[j].read

\* the part of C15 about the signature: different endpoints, one signature
C15_SignatureShared ==
    \E i, j \in 1..Len(calls) :
      /\ calls[i].endpoint # calls[j].endpoint
      /\ calls[i].signature = calls[j].signature
      /\ calls[i].read = calls[j].read

\* outside account-summary and the first binance-alt-summary every signed
\* request has a timestamp of its own
C15_FreshExceptSharedTs ==
    handler \notin {ACC, V1} => C15_SignedRequestsFresh

(***************************************************************************)
(* Claims about timeouts                                                   *)
(***************************************************************************)
\* C16: every outbound call is bounded by a timeout that aborts it, so the
\* handler eventually responds whatever the upstreams do; usdkrw responds
\* after at most four timed-out attempts, each recorded with status 0.
C16_EventuallyResponds == <>(pc = "done")

\* the handlers whose helper arms an abort timer do respond
C16_TimedHandlersRespond ==
    HasAbortTimer(handler, query) => <>(pc = "done")

\* usdkrw with every attempt timed out: four entries of status 0 and a 502
C16_UsdkrwTimeoutsRecorded ==
    /\ handler = "usdkrw" => Len(tries) <= 4
    /\ handler = "usdkrw" /\ pc = "done" /\ res.status = 502 =>
         /\ Len(tries) = 4 /\ res.body.tries = tries
         /\ \A i \in 1..4 : tries[i].error = "AbortError" <=> tries[i].status = 0

\* the state an unanswered okxFetch or tryCall stays in
C16_WaitingWithoutTimer ==
    pc = "wait" /\ ~local.timer /\ ~HasAbortTimer(handler, query)

\* usdkrw answered 502 after four aborted attempts
C16_FourTimeouts502 ==
    /\ handler = "usdkrw" /\ pc = "done" /\ res.status = 502
    /\ \A i \in 1..4 : tries[i].status = 0

(***************************************************************************)
(* Claims about the response of an invocation                              *)
(***************************************************************************)
\* C17: whatever the upstreams answer (rejected fetch, abort, non-2xx,
\* body that is not JSON, error code, JSON of an unexpected shape), the
\* invocation ends with one JSON response carrying a status code: no
\* exception leaves the handler without a response, and a response once
\* sent is not followed by another.
C17_ExactlyOneResponse ==
    /\ [](pc = "done" =>
           /\ res.status \in {200, 400, 500, 502}
           /\ res.body # NoRes.body)
    /\ [][res # NoRes => res' = res]_vars

\* C17 witness: the positions answer of account-summary was not an array,
\* or one of its entries had no symbol; the TypeError was answered with 500
C17_Witness ==
    /\ handler = ACC /\ pc = "done" /\ Len(calls) = 2
    /\ \/ got[1].kind = "object"
       \/ got[1].kind = "array" /\ Len(got[1].list) > 0
            /\ got[1].list[1].symbol = NoSymbol
    /\ res.status = 500

(***************************************************************************)
(* Claims about the debug field                                            *)
(***************************************************************************)
\* the request carried debug=1 (or debug=true)
DebugRequested == "debug" \in DOMAIN query /\ query.debug

HasDebugField ==
    "debug" \in DOMAIN res.body \/ "_debug" \in DOMAIN res.body

\* C18: a 200 response contains a debug or _debug field only if the
\* request carried debug=1 or debug=true.
C18_DebugOnlyOnRequest ==
    res.status = 200 /\ HasDebugField => DebugRequested

\* C18 holds for the handlers that read the flag; the Bithumb handlers
\* attach the field to every 200 response
C18_DebugOnlyOnRequestExceptBithumb ==
    handler \notin BthHandlers => C18_DebugOnlyOnRequest

\* the handlers that read the flag add the field exactly when asked
C18_FlagAddsField ==
    handler \in {P4, OKXB} /\ res.status = 200 =>
      (HasDebugField <=> DebugRequested)

(***************************************************************************)
(* Claims about the debug flag of okx-balance                              *)
(***************************************************************************)
\* a response without its debug field
WithoutDebug(r) ==
    [status |-> r.status,
     body |-> [f \in DOMAIN r.body \ {"debug"} |-> r.body[f]]]

\* the response of the same invocation with the flag the other way round
OtherFlagResponse == OkxBalRun(OKXB, ~query.debug, env.creds, env.okx)

\* C19: in okx-balance the debug flag only adds the debug field: with the
\* same OKX answers and the same environment, the status and every other
\* field are the same with and without the flag, also when a call fails or
\* the credentials are missing.
C19_DebugOnlyAddsField ==
    handler = OKXB /\ pc = "done" =>
      WithoutDebug(res) = WithoutDebug(OtherFlagResponse)

\* with credentials and five successful calls the flag only adds the field
C19_SameWhenNothingFails ==
    /\ handler = OKXB /\ pc = "done" /\ env.creds
    /\ \A i \in 1..5 : env.okx[i].ok
    => /\ WithoutDebug(res) = WithoutDebug(OtherFlagResponse)
       /\ res.status = 200 /\ (query.debug <=> "debug" \in DOMAIN res.body)

\* a failed call: 200 with the flag, 500 without it
C19_FailureStatusDependsOnFlag ==
    /\ handler = OKXB /\ pc = "done" /\ env.creds /\ query.debug
    /\ \E i \in 1..5 : ~env.okx[i].ok
    /\ res.status = 200 /\ OtherFlagResponse.status = 500

(***************************************************************************)
(* C20  position-summary, exchange=all                                     *)
(***************************************************************************)
AllMode == handler = "position-summary" /\ query.exchange = "all"

AllKeys == {"bybit", "bitget", "okx"}

\* the upstream answer a summary settled with
AllAnswerOf(k) ==
    LET own == SelectSeq(tries, LAMBDA t : t.exchange = k)
    IN IF own = <<>> THEN AllFail ELSE own[1].r

\* what the summary of exchange k returns, or throws, on its own answer
AllOwnResult(k) ==
    LET a == AllAnswerOf(k)
    IN IF ~a.ok THEN [error |-> "none"]
       ELSE IF k = "bybit"
         THEN FuturesOf("bybit", BybitLoop(a.list, Len(a.list)))
       ELSE IF k = "bitget"
         THEN FuturesOf("bitget", BitgetLoop(a.list, Len(a.list)))
       ELSE FuturesOf("okx", OkxLoop([id \in OkxIds |-> 10], a.list, Len(a.list)))

AllFailed(k) == env.missing = k \/ ~AllAnswerOf(k).ok

\* the contribution of exchange k to one aggregate field
AllPart(k, field) ==
    IF AllFailed(k) THEN 0 ELSE AllOwnResult(k).futures[field]

AcctSelected == handler \in AcctHandlers

SelectedKey == IF query.acct = "2" THEN env.BINANCE2_API_KEY ELSE env.BINANCE_API_KEY

SelectedSecret ==
    IF query.acct = "2" THEN env.BINANCE2_SECRET_KEY ELSE env.BINANCE_SECRET_KEY

\* C21: in the handlers with account selection, acct only selects the
\* environment pair: every signed request carries the key and is signed with
\* the secret of BINANCE2_* when acct is "2" and of BINANCE_* otherwise, a 200
\* names the account 'acct2' or 'acct1' accordingly, and when the selected
\* pair is incomplete the handler answers the 500 configuration error without
\* sending anything, never using the other account's pair.
C21_AcctSelectsCredentialPair ==
    AcctSelected =>
      /\ \A i \in 1..Len(calls) :
           calls[i].signed =>
             /\ calls[i].header = SelectedKey /\ calls[i].header # ""
             /\ calls[i].hmacKey = SelectedSecret /\ calls[i].hmacKey # ""
      /\ (pc = "done" /\ res.status = 200) =>
           res.body.account = IF query.acct = "2" THEN "acct2" ELSE "acct1"
      /\ (pc # "start" /\ (SelectedKey = "" \/ SelectedSecret = "")) =>
           /\ pc = "done" /\ res = AcctMissing(handler) /\ calls = <<>>

\* both pairs are set, acct=2 is asked and a summary ends with a 200 after
\* signed requests that carry the second pair
C21_Witness ==
    /\ AcctSelected /\ pc = "done" /\ res.status = 200
    /\ query.acct = "2" /\ res.body.account = "acct2"
    /\ env.BINANCE_API_KEY # "" /\ env.BINANCE_SECRET_KEY # ""
    /\ Len(calls) >= 2 /\ calls[Len(calls)].header = "key-2"
    /\ calls[Len(calls)].hmacKey = "secret-2"

(***************************************************************************)
(* C22  solana-balance: the soft backoff                                   *)
(***************************************************************************)
Was429(t) == ~t.ok /\ t.status = 429

\* C22: in solana-balance the Covalent request is sent at most three times,
\* the second 500 ms and the third 1000 ms after the previous answer, and an
\* attempt is repeated only when its answer was HTTP 429; an attempt that
\* succeeded or failed otherwise is the last one, and a last attempt that
\* failed or carried no data yields the 502.
C22_RetryOnlyOn429 ==
    handler = SOL =>
      /\ Len(calls) <= 3
      /\ \A k \in 1..Len(calls) : calls[k] = SolAttempt(k)
      /\ \A k \in 2..Len(calls) :
           calls[k].delay = (IF k = 2 THEN 500 ELSE 1000) /\ Was429(tries[k - 1])
      /\ \A k \in 1..Len(tries) :
           ~Was429(tries[k]) => (pc = "done" /\ Len(calls) = k /\ Len(tries) = k)
      /\ (pc = "done" /\ tries # <<>>) =>
           LET last == tries[Len(tries)]
           IN /\ Len(calls) = Len(tries)
              /\ (~last.ok \/ ~last.hasData) <=> res.status = 502
              /\ (last.ok /\ last.hasData) <=> res.status = 200

\* two 429 answers, two pauses, and the third attempt succeeds
C22_Witness ==
    /\ handler = SOL /\ pc = "done" /\ res.status = 200
    /\ Len(calls) = 3 /\ calls[2].delay = 500 /\ calls[3].delay = 1000
    /\ Was429(tries[1]) /\ Was429(tries[2]) /\ tries[3].ok

\* a transport error on the first attempt ends the invocation with the 502
C22_TransportErrorNotRetried ==
    /\ handler = SOL /\ pc = "done" /\ res.status = 502
    /\ Len(calls) = 1 /\ tries[1].status = 0

(***************************************************************************)
(* C23  binance-alt-summary (second handler): the exhausted futures chain  *)
(***************************************************************************)
Requested(endpoint) == \E i \in 1..Len(calls) : calls[i] = endpoint

\* both FAPI attempts were not ok and the PAPI answer, kept in `got`, was
\* not ok either
FuturesChainExhausted ==
    /\ handler = V2
    /\ Requested("papi/v1/um/positionRisk")
    /\ pc # "papi"
    /\ ~got[1].ok

\* C23: in the second binance-alt-summary handler, once both FAPI attempts and
\* the PAPI attempt have failed the response reports a failure: it is not a
\* 200 whose altFuturesUSD is 0 and whose altFuturesTop is empty.
C23_ExhaustedChainSurfaced ==
    (FuturesChainExhausted /\ pc = "done") =>
      ~(/\ res.status = 200
        /\ res.body.altFuturesUSD = 0
        /\ res.body.altFuturesTop = <<>>)

(***************************************************************************)
(* C24  binance-alt-summary (second handler): the futures-position chain   *)
(***************************************************************************)
StepsOf(kind) == SelectSeq(tries, LAMBDA t : t.kind = kind)

FapiRequests ==
    SelectSeq(calls, LAMBDA c : c.endpoint = "fapi/v2/positionRisk")

\* C24: in the second binance-alt-summary handler every FAPI positionRisk
\* request directly follows a server-time fetch and carries the drift computed
\* from it; a second FAPI request exists only after a first that was not ok,
\* there are at most two; PAPI is requested only after two FAPI answers that
\* were not ok; the PAPI result is kept only if it was ok; and a server-time
\* fetch that failed yields the local clock.
C24_FuturesChainProtocol ==
    handler = V2 =>
      /\ \A i \in 1..Len(tries) :
           /\ tries[i].kind = "fapi" =>
                /\ i > 1 /\ tries[i - 1].kind = "time"
                /\ tries[i].drift = tries[i - 1].drift
           /\ tries[i].kind = "time" =>
                /\ tries[i].drift \in {tries[i].serverTs - tries[i].clock,
                                       tries[i].serverTs - tries[i].clock + 1,
                                       tries[i].serverTs - tries[i].clock - 1}
                /\ ~tries[i].ok => tries[i].serverTs = tries[i].clock
           /\ (tries[i].kind = "time" /\ i > 1) => ~tries[i - 1].ok
      /\ Len(StepsOf("fapi")) <= 2 /\ Len(StepsOf("time")) <= 2
      /\ Len(StepsOf("fapi")) = Len(FapiRequests)
      /\ \A k \in 1..Len(FapiRequests) :
           FapiRequests[k].timestamp - StepsOf("fapi")[k].drift \in 0..MaxClock
      /\ Len(StepsOf("fapi")) = 2 => ~StepsOf("fapi")[1].ok
      /\ Len(StepsOf("papi")) <= 1
      /\ Len(StepsOf("papi")) = 1 =>
           /\ Len(StepsOf("fapi")) = 2
           /\ ~StepsOf("fapi")[1].ok /\ ~StepsOf("fapi")[2].ok
           /\ got[1] = IF StepsOf("papi")[1].ok
                         THEN [from |-> "papi", ok |-> TRUE]
                         ELSE [from |-> "fapi", ok |-> FALSE]
      /\ (pc \in {"wallet", "done"} /\ Len(StepsOf("papi")) = 0) =>
           got[1] = [from |-> "fapi", ok |-> TRUE]

\* the whole chain ran: the first server-time fetch failed, both FAPI attempts
\* were not ok, the drift was measured again and differs, and PAPI was ok
C24_Witness ==
    /\ handler = V2 /\ pc = "done"
    /\ Len(tries) = 5
    /\ ~tries[1].ok /\ tries[3].ok
    /\ tries[2].drift # tries[4].drift
    /\ tries[5].kind = "papi" /\ tries[5].ok
    /\ got[1].from = "papi"

(***************************************************************************)
(* C25  binance-alt-summary: the wallet fallback chain                     *)
(***************************************************************************)
FallbackChain ==
    << "sapi/v1/capital/config/getall", "sapi/v1/asset/get-funding-asset",
       "sapi/v1/margin/account", "sapi/v1/margin/isolated/account" >>

FallbackRequests ==
    SelectSeq(calls, LAMBDA c : \E k \in 1..Len(FallbackChain) : c = FallbackChain[k])

PrimaryFailed == tries # <<>> /\ ~tries[1].usable

\* C25: in binance-alt-summary the fallback wallet endpoints are requested in
\* their fixed order, each at most once and only after a getUserAsset answer
\* that was not ok or held no array; after such an answer all four are
\* requested whatever the earlier ones answered, after a usable answer none
\* is; and `path` is 'fallback' exactly when they were requested.
C25_FallbackChainIffPrimaryFailed ==
    handler \in {V1, V2} =>
      /\ tries # <<>> => tries[1].kind = "getUserAsset"
      /\ Len(FallbackRequests) <= Len(FallbackChain)
      /\ FallbackRequests = SubSeq(FallbackChain, 1, Len(FallbackRequests))
      /\ FallbackRequests # <<>> => PrimaryFailed
      /\ (PrimaryFailed /\ pc \notin {"capital", "funding", "marginCross", "marginIso"})
            => FallbackRequests = FallbackChain
      /\ (pc = "done" /\ res.status = 200) =>
           /\ PrimaryFailed <=> FallbackRequests = FallbackChain
           /\ res.body.path = IF PrimaryFailed THEN "fallback" ELSE "getUserAsset"

\* getUserAsset failed, capital/config/getall failed as well, and the three
\* later endpoints were still requested, one of them with a usable answer
C25_Witness ==
    /\ handler \in {V1, V2} /\ pc = "done" /\ res.status = 200
    /\ PrimaryFailed /\ res.body.path = "fallback"
    /\ ~tries[2].usable /\ tries[3].usable /\ ~tries[4].usable
    /\ FallbackRequests = FallbackChain

(***************************************************************************)
(* C26  Bithumb: the signing strategies are tried in order                 *)
(***************************************************************************)
BthSelected == handler \in BthHandlers

StrategiesCalled == [k \in 1..Len(calls) |-> calls[k].strategy]

\* C26: in the Bithumb handlers with several signing strategies the
\* strategies are called in their fixed order, each only after all earlier
\* ones returned not-ok; the first ok one is answered with a 200 naming it;
\* and a 500 of a handler that has its credentials is sent only after every
\* strategy was called, listing one attempt record per strategy in order.
C26_StrategiesInOrder ==
    BthSelected =>
      /\ Len(calls) <= Len(BthStrategies(handler))
      /\ StrategiesCalled = SubSeq(BthStrategies(handler), 1, Len(calls))
      /\ \A k \in 1..Len(tries) :
           /\ tries[k].mode = BthStrategies(handler)[k]
           /\ k < Len(calls) => ~tries[k].ok
      /\ (pc = "done" /\ res.status = 200) =>
           /\ tries[Len(tries)].ok
           /\ res.body.mode = calls[Len(calls)].strategy
      /\ (pc = "done" /\ res.status = 500 /\ env.creds) =>
           /\ Len(calls) = Len(BthStrategies(handler))
           /\ "attempts" \in DOMAIN res.body
           /\ Len(res.body.attempts) = Len(BthStrategies(handler))
           /\ \A k \in 1..Len(res.body.attempts) :
                res.body.attempts[k].mode = BthStrategies(handler)[k]

\* the same without the calls that throw: holds
C26_InOrderUnlessACallThrows ==
    (BthSelected /\ ~(got # <<>> /\ got[1].kind = "reject")) => C26_StrategiesInOrder

\* every strategy of the eighteen failed and the 500 lists them all
C26_AllEighteenFailed ==
    /\ handler = BTH16 /\ pc = "done" /\ res.status = 500 /\ Len(calls) = 18
    /\ "attempts" \in DOMAIN res.body
    /\ Len(res.body.attempts) = 18

(***************************************************************************)
(* C27  Bithumb: nonces                                                    *)
(***************************************************************************)
\* C27: the nonces of the successive requests of a Bithumb handler, read as
\* integers, are strictly increasing, for the timestamp followed by a random
\* integer below 1000 as well as for the plain timestamp.
C27_NoncesStrictlyIncrease ==
    BthSelected =>
      \A i, j \in 1..Len(calls) : i < j => calls[i].nonce < calls[j].nonce

\* the plain millisecond timestamps are strictly increasing
C27_PlainTimestampsIncrease ==
    (BthSelected /\ handler # BTH) => C27_NoncesStrictlyIncrease

\* mode2 is sent later than mode1 and carries the smaller nonce
C27_LaterNonceSmaller ==
    /\ handler = BTH /\ Len(calls) = 2
    /\ calls[2].nonce < calls[1].nonce

(***************************************************************************)
(* C28  bithumb-balance.js: a first strategy that fails in any way         *)
(***************************************************************************)
\* C28: in bithumb-balance.js no error response is sent before the second
\* strategy was attempted, whatever made the first one fail, a transport
\* error included.
C28_SecondStrategyBeforeAnyError ==
    (handler = BTH /\ env.creds /\ pc = "done" /\ res.status # 200) =>
      Len(calls) = 2

\* a first strategy that returned not-ok is followed by the second
C28_ReturnedFailureLeadsToMode2 ==
    (handler = BTH /\ pc = "done" /\ tries # <<>> /\ ~tries[1].ok) =>
      Len(calls) = 2

(***************************************************************************)
(* C29  OKX futures: the sign of the USD exposure                          *)
(***************************************************************************)
OkxSummaryDone ==
    /\ handler = "position-summary" /\ query.exchange = "okx"
    /\ pc = "done" /\ res.status = 200

\* C29: in the OKX futures summary the USD exposure of every listed SWAP
\* position has the sign of its coin quantity (contracts x ctVal, negative
\* for a short): a position with a negative coin quantity has no positive usd
\* and the direction SHORT, one with a positive coin quantity no negative usd.
C29_UsdSignFollowsCoinQty ==
    OkxSummaryDone =>
      \A i \in 1..Len(res.body.futures.altFuturesTop) :
        LET e == res.body.futures.altFuturesTop[i]
        IN /\ e.coinQty < 0 => (e.usd <= 0 /\ e.direction = "SHORT")
           /\ e.coinQty > 0 => (e.usd >= 0 /\ e.direction = "LONG")

\* the same for the positions whose posSide is LONG or SHORT: holds
C29_SignFollowsForLongShortMode ==
    OkxSummaryDone =>
      \A i \in 1..Len(res.body.futures.altFuturesTop) :
        LET e == res.body.futures.altFuturesTop[i]
        IN e.side \in {"LONG", "SHORT"} =>
             /\ e.coinQty < 0 => (e.usd <= 0 /\ e.direction = "SHORT")
             /\ e.coinQty > 0 => (e.usd >= 0 /\ e.direction = "LONG")

(***************************************************************************)
(* C30  binance-alt-summary, fallback path: an asset held in several       *)
(* wallets                                                                 *)
(***************************************************************************)
\* the USD value of one wallet entry before any threshold: 0 for an excluded
\* asset, an empty balance or an asset without a price
EntryValue(kind, it) ==
    IF it.asset = "" \/ it.asset \in EXCLUDED THEN 0
    ELSE IF WalletTotal(kind, it) <= 0 THEN 0
    ELSE WalletTotal(kind, it) * PriceOf(local, it.asset)

\* the value of the asset summed over the entries of one wallet answer
ValueInWallet(asset, t) ==
    ForEach(LAMBDA sum, it :
              IF it.asset = asset THEN sum + EntryValue(t.kind, it) ELSE sum,
            0, t.list, 1, Len(t.list))

\* the value of the asset summed over all wallets that answered
CombinedValue(asset) ==
    ForEach(LAMBDA sum, t : sum + ValueInWallet(asset, t), 0, tries, 1, Len(tries))

WalletAssetsSeen ==
    UNION { {t.list[i].asset : i \in 1..Len(t.list)} :
              t \in {tries[k] : k \in 1..Len(tries)} }

FallbackAnswered ==
    /\ handler \in {V1, V2} /\ pc = "done" /\ res.status = 200
    /\ res.body.path = "fallback"

\* C30: on the fallback path of binance-alt-summary an asset whose values
\* summed over all wallets reach MIN_USD appears in altWalletTop with that
\* combined value, even when every single wallet holds less than MIN_USD.
C30_CombinedValueDecides ==
    FallbackAnswered =>
      \A asset \in WalletAssetsSeen :
        CombinedValue(asset) >= MIN_USD =>
          \E i \in 1..Len(res.body.altWalletTop) :
            /\ res.body.altWalletTop[i].asset = asset
            /\ res.body.altWalletTop[i].usd = Round2(CombinedValue(asset))

\* what the code does: every listed asset carries the sum of its entries
\* that reach MIN_USD on their own
C30_OnlyEntriesAboveMinCount ==
    FallbackAnswered =>
      \A i \in 1..Len(res.body.altWalletTop) :
        res.body.altWalletTop[i].usd >= MIN_USD

====
